---- MODULE Spec2Model ----
(***************************************************************************)
(* Roster management: spreadsheet import (header normalisation, row        *)
(* validation, upsert / replace reconciliation with audit log) and the     *)
(* client-side filter / search view of the roster.                         *)
(*                                                                         *)
(* Text is modelled as a sequence of one-character strings so that trim,   *)
(* lower-casing and substring search are computed, not assumed.            *)
(***************************************************************************)
EXTENDS Integers, Sequences, FiniteSets, TLC

VARIABLES
    roster,        \* table taxi_roster: set of stored rows
    uploads,       \* table roster_uploads: sequence of audit rows
    nextId,        \* next identifier the store hands out (gen_random_uuid)
    clock,         \* the store's now()
    selectedFile,  \* Admin.selectedFile
    uploadType,    \* Admin.uploadType
    isUploading,   \* Admin.isUploading
    pc,            \* position of the running handleUpload call
    upFile,        \* selectedFile as captured by the running handleUpload
    upMode,        \* uploadType as captured by the running handleUpload
    drivers,       \* local `drivers` of handleUpload (result of parseFile)
    toast,         \* last notification shown by the Admin page
    calls,         \* store calls issued by the current handleUpload call
    attempts,      \* number of handleUpload calls started
    previewData,   \* Admin.previewData
    showPreview,   \* Admin.showPreview
    pending,       \* files whose preview parse (handleFileSelect) has not completed
    writes,        \* history: the roster writes the store accepted, <<call, mode, batch>>
    vDrivers,      \* Roster page: `drivers` (query result)
    filters,       \* Roster page: filters
    searchQuery,   \* Roster page: searchQuery
    sortKey,       \* RosterTable.sortKey
    sortDirection, \* RosterTable.sortDirection
    sortBefore,    \* history: <<sortKey, sortDirection>> before the last handleSort
    phoneA,        \* phone utilities: a phone value held by a record
    phoneB,        \* phone utilities: the phone value of a second record
    phoneCall,     \* phone utilities: the function applied to the two values
    phoneTrace,    \* phone utilities: the pairs of results, one per application
    headerA,       \* header normaliser: a raw column header
    headerB,       \* header normaliser: the same header in another spelling
    headerResult,  \* header normaliser: the pair of canonical keys, once computed
    selectedDrivers, \* Roster page: selectedDrivers
    exportColumns, \* the columns the viewer wants exported (no control of the page records it)
    exportArtifact, \* the last file handed to the browser for download
    exportToast,   \* the last notification of RosterShareActions
    showVcfBatchModal, \* RosterShareActions.showVcfBatchModal
    vcfArtifact,   \* the last contact file handed to the browser for download
    formData,      \* EditDriverDialog.formData while the dialog is open
    formChanges,   \* the number of fields typed into since the dialog opened
    updateRequest, \* the update of updateMutation the store has not answered
    editToast,     \* the last notification of EditDriverDialog and of handleDelete
    edits,         \* the number of times the edit dialog was opened
    columns,       \* useColumnOrder.columns, as the keys of the column definitions
    storedOrder,   \* localStorage['taxi-roster-column-order']
    columnsLoaded, \* whether the mount effect of useColumnOrder has run
    moves,         \* the number of moveColumn calls
    selectedIds,   \* RosterTable.selectedIds
    isAdmin,       \* useAuth().isAdmin of the viewer of the table
    twinDrivers,   \* a second roster, shown to the same viewer in another session
    boxFile,       \* FileUpload.selectedFile
    boxError       \* FileUpload.error

vars == <<roster, uploads, nextId, clock, selectedFile, uploadType, isUploading,
          pc, upFile, upMode, drivers, toast, calls, attempts,
          previewData, showPreview, pending, writes, vDrivers, filters,
          searchQuery, sortKey, sortDirection, sortBefore,
          phoneA, phoneB, phoneCall, phoneTrace, headerA, headerB, headerResult,
          selectedDrivers, exportColumns, exportArtifact, exportToast,
          showVcfBatchModal, vcfArtifact,
          formData, formChanges, updateRequest, editToast, edits,
          columns, storedOrder, columnsLoaded, moves, selectedIds,
          isAdmin, twinDrivers, boxFile, boxError>>

adminVars == <<selectedFile, uploadType, isUploading, pc, upFile, upMode,
               drivers, toast, calls, attempts, previewData, showPreview, pending>>
storeVars == <<roster, uploads, nextId, clock, writes>>
viewVars == <<vDrivers, filters, searchQuery, sortKey, sortDirection, sortBefore>>
phoneVars == <<phoneA, phoneB, phoneCall, phoneTrace>>
headerVars == <<headerA, headerB, headerResult>>
exportVars == <<selectedDrivers, exportColumns, exportArtifact, exportToast,
                showVcfBatchModal, vcfArtifact>>
editVars == <<formData, formChanges, updateRequest, editToast, edits>>
columnVars == <<columns, storedOrder, columnsLoaded, moves>>
tableVars == <<selectedIds>>
viewerVars == <<isAdmin, twinDrivers>>
boxVars == <<boxFile, boxError>>
pageVars == <<editVars, columnVars, tableVars, viewerVars, boxVars>>
pagesButEdit == <<columnVars, tableVars, viewerVars, boxVars>>
pagesButColumns == <<editVars, tableVars, viewerVars, boxVars>>
pagesButTable == <<editVars, columnVars, viewerVars, boxVars>>
pagesButBox == <<editVars, columnVars, tableVars, viewerVars>>
toolVars == <<phoneVars, headerVars, exportVars, pageVars>>

(***************************************************************************)
(* Bounds of the model.                                                    *)
(***************************************************************************)
MaxRows == 2          \* rows of an uploaded sheet
MaxUploads == 2       \* handleUpload calls in one behaviour
MaxPending == 1       \* preview parses in flight at one time
MaxSheetRows == 2     \* rows of a sheet in the parser specification
MaxParses == 2        \* preview parses in flight in the selection specification
MaxEdits == 1         \* openings of the edit dialog in one behaviour
MaxChanges == 1       \* fields typed into per opening of the edit dialog
MaxMoves == 2         \* moveColumn calls in one behaviour
MaxStored == 2        \* keys of a stored column order that is not a full order
MaxDrivers == 2       \* records of the roster shown by the view

(***************************************************************************)
(* Text.                                                                   *)
(***************************************************************************)
NULL == <<"<null>">>            \* SQL NULL / JS null
UNDEF == <<"<undefined>">>      \* JS undefined (absent property)
EMPTY == <<>>                   \* the empty string ''

UpperChars == <<"A","B","C","D","E","F","G","H","I","J","K","L","M",
                "N","O","P","Q","R","S","T","U","V","W","X","Y","Z">>
LowerChars == <<"a","b","c","d","e","f","g","h","i","j","k","l","m",
                "n","o","p","q","r","s","t","u","v","w","x","y","z">>

IsSpace(c) == c \in {" ", "\t", "\n"}

toLowerChar(c) ==
    IF \E i \in DOMAIN UpperChars : UpperChars[i] = c
    THEN LowerChars[CHOOSE i \in DOMAIN UpperChars : UpperChars[i] = c]
    ELSE c

toLowerCase(s) == [i \in DOMAIN s |-> toLowerChar(s[i])]

RECURSIVE trimStart(_)
trimStart(s) ==
    IF s # <<>> /\ IsSpace(Head(s)) THEN trimStart(Tail(s)) ELSE s

RECURSIVE trimEnd(_)
trimEnd(s) ==
    IF s # <<>> /\ IsSpace(s[Len(s)]) THEN trimEnd(SubSeq(s, 1, Len(s) - 1)) ELSE s

trim(s) == trimEnd(trimStart(s))

\* String.prototype.includes
includes(s, q) ==
    \E i \in 0..(Len(s) - Len(q)) : SubSeq(s, i + 1, i + Len(q)) = q

\* JS truthiness of a string-or-null-or-undefined value
Truthy(v) == v # NULL /\ v # UNDEF /\ v # EMPTY

(***************************************************************************)
(* Header normalisation (Admin.normalizeHeader).                           *)
(***************************************************************************)
K_plate == <<"p","l","a","t","e">>
K_employee_id == <<"e","m","p","l","o","y","e","e","_","i","d">>
K_name == <<"n","a","m","e">>
K_captain == <<"c","a","p","t","a","i","n">>
K_phone == <<"p","h","o","n","e">>
K_telegram_phone == <<"t","e","l","e","g","r","a","m","_","p","h","o","n","e">>
K_schedule == <<"s","c","h","e","d","u","l","e">>
K_rest_day == <<"r","e","s","t","_","d","a","y">>
K_status == <<"s","t","a","t","u","s">>

\* the synonym table: <<header as written (trimmed, lower case), canonical key>>
mappings ==
    { <<<<"p","l","a","t","e">>, K_plate>>,
      <<<<"p","l","a","t","e"," ","#">>, K_plate>>,
      <<<<"p","l","a","t","e","#">>, K_plate>>,
      <<<<"i","d">>, K_employee_id>>,
      <<<<"e","m","p","l","o","y","e","e"," ","i","d">>, K_employee_id>>,
      <<<<"e","m","p","l","o","y","e","e","_","i","d">>, K_employee_id>>,
      <<<<"n","a","m","e">>, K_name>>,
      <<<<"d","r","i","v","e","r"," ","n","a","m","e">>, K_name>>,
      <<<<"d","r","i","v","e","r","_","n","a","m","e">>, K_name>>,
      <<<<"p","h","o","n","e">>, K_phone>>,
      <<<<"p","h","o","n","e"," ","#">>, K_phone>>,
      <<<<"p","h","o","n","e","#">>, K_phone>>,
      <<<<"p","h","o","n","e"," ","n","u","m","b","e","r">>, K_phone>>,
      <<<<"t","e","l","e","g","r","a","m">>, K_telegram_phone>>,
      <<<<"t","e","l","e","g","r","a","m"," ","p","h","o","n","e">>, K_telegram_phone>>,
      <<<<"t","e","l","e","g","r","a","m","_","p","h","o","n","e">>, K_telegram_phone>>,
      <<<<"c","a","p","t","a","i","n">>, K_captain>>,
      <<<<"s","u","p","e","r","v","i","s","o","r">>, K_captain>>,
      <<<<"s","c","h","e","d","u","l","e">>, K_schedule>>,
      <<<<"s","c","h","e","d","u","l","e"," ">>, K_schedule>>,
      <<<<"r","d">>, K_rest_day>>,
      <<<<"r","d"," ","(","r","e","s","t"," ","d","a","y",")">>, K_rest_day>>,
      <<<<"r","e","s","t"," ","d","a","y">>, K_rest_day>>,
      <<<<"r","e","s","t","_","d","a","y">>, K_rest_day>>,
      <<<<"r","e","s","t","d","a","y">>, K_rest_day>>,
      <<<<"s","t","a","t","u","s">>, K_status>> }

\* The properties an object literal inherits from Object.prototype under an
\* all-lower-case name: the Object constructor and the prototype itself.
\* Neither value is a string.
ObjectConstructor == <<"<function Object>">>
ObjectPrototype == <<"<Object.prototype>">>

inherited ==
    { <<<<"c","o","n","s","t","r","u","c","t","o","r">>, ObjectConstructor>>,
      <<<<"_","_","p","r","o","t","o","_","_">>, ObjectPrototype>> }

\* mappings[normalized] || normalized: the property read follows the
\* prototype chain of the object literal
properties == mappings \cup inherited

normalizeHeader(header) ==
    LET normalized == toLowerCase(trim(header))
    IN  IF \E m \in properties : m[1] = normalized
        THEN (CHOOSE m \in properties : m[1] = normalized)[2]
        ELSE normalized

(***************************************************************************)
(* Row parsing and validation (Admin.parseFile).  A sheet row, as the      *)
(* spreadsheet reader returns it, is a sequence of <<header, cell>> pairs  *)
(* in the row's iteration order.                                           *)
(***************************************************************************)
\* value !== undefined && value !== null ? String(value).trim() : ''
cellText(value) == IF value # UNDEF /\ value # NULL THEN trim(value) ELSE EMPTY

\* a key that is already set keeping its first value
RECURSIVE normalizedRow_FirstWins(_, _)
normalizedRow_FirstWins(entries, acc) ==
    IF entries = <<>> THEN acc
    ELSE LET normalizedKey == normalizeHeader(Head(entries)[1])
             text == cellText(Head(entries)[2])
         IN  normalizedRow_FirstWins(Tail(entries),
                 [k \in (DOMAIN acc) \cup {normalizedKey} |->
                     IF k \in DOMAIN acc THEN acc[k] ELSE text])

RECURSIVE normalizedRow(_, _)
normalizedRow(entries, acc) ==
    IF entries = <<>> THEN acc
    ELSE LET normalizedKey == normalizeHeader(Head(entries)[1])
             text == cellText(Head(entries)[2])
         IN  normalizedRow(Tail(entries),
                 [k \in (DOMAIN acc) \cup {normalizedKey} |->
                     IF k = normalizedKey THEN text ELSE acc[k]])

lookup(nrow, key) == IF key \in DOMAIN nrow THEN nrow[key] ELSE UNDEF

orElse(v, dflt) == IF Truthy(v) THEN v ELSE dflt

ACTIVE == <<"a","c","t","i","v","e">>

toDriverRow(row) ==
    LET nrow == normalizedRow(row, [k \in {} |-> EMPTY])
    IN  [ plate          |-> orElse(lookup(nrow, K_plate), EMPTY),
          employee_id    |-> orElse(lookup(nrow, K_employee_id), EMPTY),
          name           |-> orElse(lookup(nrow, K_name), EMPTY),
          captain        |-> orElse(lookup(nrow, K_captain), EMPTY),
          phone          |-> orElse(lookup(nrow, K_phone), UNDEF),
          telegram_phone |-> orElse(lookup(nrow, K_telegram_phone), UNDEF),
          schedule       |-> orElse(lookup(nrow, K_schedule), UNDEF),
          rest_day       |-> orElse(lookup(nrow, K_rest_day), UNDEF),
          status         |-> orElse(lookup(nrow, K_status), ACTIVE) ]

\* the filter with the captain check left out
isValidDriver_NoCaptain(d) ==
    Truthy(d.plate) /\ Truthy(d.employee_id) /\ Truthy(d.name)

isValidDriver(d) ==
    Truthy(d.plate) /\ Truthy(d.employee_id) /\ Truthy(d.name) /\ Truthy(d.captain)

\* Array.prototype.filter, with the predicate given as the set of kept values
RECURSIVE SelectSeqIn(_, _)
SelectSeqIn(s, keep) ==
    IF s = <<>> THEN <<>>
    ELSE IF Head(s) \in keep THEN <<Head(s)>> \o SelectSeqIn(Tail(s), keep)
         ELSE SelectSeqIn(Tail(s), keep)

\* the value parseFile resolves with, for a file the reader can decode
parseFile(file) ==
    LET all == [i \in DOMAIN file.rows |-> toDriverRow(file.rows[i])]
    IN  SelectSeqIn(all, {d \in {all[i] : i \in DOMAIN all} : isValidDriver(d)})

\* parseFile rejects: the reader throws, or the file cannot be read
parseRejects(file) == ~file.readable

(***************************************************************************)
(* The store: tables taxi_roster and roster_uploads.                       *)
(***************************************************************************)
ZeroUuid == 0

\* the request body of upsert(drivers): JSON drops undefined properties and
\* the columns the request names but a row lacks are stored as NULL
toColumn(v) == IF v = UNDEF THEN NULL ELSE v

\* INSERT of one row: id, created_at and updated_at take their DEFAULT
insertRow(d, id, now) ==
    [ id |-> id, plate |-> d.plate, employee_id |-> d.employee_id, name |-> d.name,
      phone |-> toColumn(d.phone), telegram_phone |-> toColumn(d.telegram_phone),
      captain |-> d.captain, schedule |-> toColumn(d.schedule),
      rest_day |-> toColumn(d.rest_day), status |-> toColumn(d.status),
      created_at |-> now, updated_at |-> now ]

\* the update leaving a column alone when the proposed row lacks it
updateRow_KeepAbsent(old, d, now) ==
    [ old EXCEPT !.plate = d.plate, !.employee_id = d.employee_id, !.name = d.name,
                 !.phone = IF d.phone = UNDEF THEN old.phone ELSE d.phone,
                 !.telegram_phone = IF d.telegram_phone = UNDEF
                                    THEN old.telegram_phone ELSE d.telegram_phone,
                 !.captain = d.captain,
                 !.schedule = IF d.schedule = UNDEF THEN old.schedule ELSE d.schedule,
                 !.rest_day = IF d.rest_day = UNDEF THEN old.rest_day ELSE d.rest_day,
                 !.status = IF d.status = UNDEF THEN old.status ELSE d.status,
                 !.updated_at = now ]

\* ON CONFLICT (plate) DO UPDATE: every column of the request is set from the
\* proposed row; the BEFORE UPDATE trigger refreshes updated_at
updateRow(old, d, now) ==
    [ old EXCEPT !.plate = d.plate, !.employee_id = d.employee_id, !.name = d.name,
                 !.phone = toColumn(d.phone),
                 !.telegram_phone = toColumn(d.telegram_phone),
                 !.captain = d.captain, !.schedule = toColumn(d.schedule),
                 !.rest_day = toColumn(d.rest_day), !.status = toColumn(d.status),
                 !.updated_at = now ]

\* a plain INSERT of every row, with no conflict target
RECURSIVE upsertRows_InsertOnly(_, _, _, _, _)
upsertRows_InsertOnly(rows, table, id, now, written) ==
    IF rows = <<>> THEN [ok |-> TRUE, table |-> table, nextId |-> id]
    ELSE upsertRows_InsertOnly(Tail(rows), table \cup {insertRow(Head(rows), id, now)},
                               id + 1, now, written)

\* one INSERT ... ON CONFLICT (plate) DO UPDATE statement over `rows`, in order.
\* A second proposed row for a plate the statement already wrote makes the
\* whole statement fail (it cannot affect a row a second time).
RECURSIVE upsertRows(_, _, _, _, _)
upsertRows(rows, table, id, now, written) ==
    IF rows = <<>> THEN [ok |-> TRUE, table |-> table, nextId |-> id]
    ELSE LET d == Head(rows)
         IN  IF d.plate \in written
             THEN [ok |-> FALSE, table |-> table, nextId |-> id]
             ELSE IF \E r \in table : r.plate = d.plate
                  THEN LET old == CHOOSE r \in table : r.plate = d.plate
                       IN  upsertRows(Tail(rows),
                                      (table \ {old}) \cup {updateRow(old, d, now)},
                                      id, now, written \cup {d.plate})
                  ELSE upsertRows(Tail(rows), table \cup {insertRow(d, id, now)},
                                  id + 1, now, written \cup {d.plate})

\* the delete filtered with eq in place of neq
deleteAll_None(table) == {r \in table : ~(r.id = ZeroUuid)}

\* .delete().neq('id', '00000000-0000-0000-0000-000000000000')
deleteAll(table) == {r \in table : ~(r.id # ZeroUuid)}

auditRow(user, file, mode, count, now) ==
    [ uploaded_by |-> user, file_name |-> file.name, upload_type |-> mode,
      records_count |-> count, created_at |-> now ]

(***************************************************************************)
(* Inputs of the upload specification: sheets of at most MaxRows rows.     *)
(***************************************************************************)
H_PLATE == <<" ","P","L","A","T","E">>
H_ID == <<"I","D">>
H_Name == <<"N","a","m","e">>
H_DriverName == <<"D","r","i","v","e","r"," ","N","a","m","e">>
H_Captain == <<"C","a","p","t","a","i","n">>
H_Supervisor == <<"s","u","p","e","r","v","i","s","o","r">>
H_Phone == <<"P","h","o","n","e"," ","#">>
H_Status == <<"S","T","A","T","U","S">>
H_Notes == <<"N","o","t","e","s">>

P1 == <<"P","1">>
P2 == <<"P","2">>
P3 == <<"P","3">>
P9 == <<"P","9">>
E1 == <<"E","1">>
E2 == <<"E","2">>
N1 == <<"J","a","n">>
N2 == <<"A","n","n">>
C1 == <<"X">>
C2 == <<"Y">>
Tel1 == <<"0","9","1">>
Tel2 == <<"0","9","2">>
INACTIVE == <<"i","n","a","c","t","i","v","e">>

\* valid; plate padded with blanks; no phone, no status
RowA == << <<H_PLATE, <<" ","P","1"," ">> >>, <<H_ID, E1>>, <<H_Name, N1>>,
           <<H_Captain, C1>> >>
\* valid; same employee as RowA, another plate
RowB == << <<H_PLATE, P2>>, <<H_ID, E1>>, <<H_DriverName, N2>>,
           <<H_Supervisor, C1>>, <<H_Phone, Tel2>>, <<H_Status, INACTIVE>> >>
\* invalid: no captain
RowD == << <<H_PLATE, P3>>, <<H_ID, E2>>, <<H_Name, N1>>, <<H_Phone, Tel1>>,
           <<H_Notes, C1>> >>

UploadRows == {RowA, RowB, RowD}

SeqsUpTo(S, n) == UNION {[1..k -> S] : k \in 0..n}

FileNames == {"a.xlsx"}

Files ==
    {[name |-> n, readable |-> TRUE, rows |-> r] :
        n \in FileNames, r \in SeqsUpTo(UploadRows, MaxRows)}
    \cup {[name |-> "bad.xls", readable |-> FALSE, rows |-> <<>>]}

NoFile == [name |-> "", readable |-> FALSE, rows |-> <<>>]

User == "admin-1"

Old1 == [ id |-> 1, plate |-> P1, employee_id |-> E2, name |-> N2, phone |-> Tel1,
          telegram_phone |-> Tel2, captain |-> C2, schedule |-> <<"A","M">>,
          rest_day |-> NULL, status |-> INACTIVE, created_at |-> 0, updated_at |-> 0 ]
Old9 == [ id |-> 2, plate |-> P9, employee_id |-> E1, name |-> N1, phone |-> NULL,
          telegram_phone |-> NULL, captain |-> C1, schedule |-> NULL,
          rest_day |-> NULL, status |-> ACTIVE, created_at |-> 0, updated_at |-> 0 ]

InitRosters == { {}, {Old1, Old9} }

NoFilters == [captain |-> <<"a","l","l">>, schedule |-> <<"a","l","l">>,
              restDay |-> <<"a","l","l">>, status |-> <<"a","l","l">>]

\* RosterTable: useState<ColumnKey | null>(null), useState<SortDirection>(null)
NoKey == "<null>"
NoDirection == "<null>"

(***************************************************************************)
(* The Admin page.                                                         *)
(***************************************************************************)
PreviewLimit == 20

InitAdmin ==
    /\ selectedFile = NoFile
    /\ uploadType = "upsert"
    /\ isUploading = FALSE
    /\ pc = "idle"
    /\ upFile = NoFile
    /\ upMode = "upsert"
    /\ drivers = <<>>
    /\ toast = "none"
    /\ calls = <<>>
    /\ attempts = 0
    /\ previewData = <<>>
    /\ showPreview = FALSE
    /\ pending = <<>>

InitPhone ==
    /\ phoneA = NULL
    /\ phoneB = NULL
    /\ phoneCall = "none"
    /\ phoneTrace = <<>>

InitHeader ==
    /\ headerA = EMPTY
    /\ headerB = EMPTY
    /\ headerResult = <<>>

\* the nine columns of getExportData
ExportLabels == {"Plate", "Employee ID", "Name", "Phone", "Telegram Phone",
                 "Captain", "Schedule", "Rest Day", "Status"}

NoArtifact == [format |-> "none", rows |-> <<>>]
NoVcf == [start |-> 0, end |-> 0, lines |-> <<>>]
NoToast == [kind |-> "none", format |-> "none", count |-> 0]

InitExport ==
    /\ selectedDrivers = <<>>
    /\ exportColumns = ExportLabels
    /\ exportArtifact = NoArtifact
    /\ exportToast = NoToast
    /\ showVcfBatchModal = FALSE
    /\ vcfArtifact = NoVcf

NoForm == [id |-> 0]

InitEdit ==
    /\ formData = NoForm
    /\ formChanges = 0
    /\ updateRequest = NoForm
    /\ editToast = "none"
    /\ edits = 0

\* the keys of DEFAULT_COLUMNS, in order
DEFAULT_COLUMNS == <<"plate", "employee_id", "name", "phone", "telegram", "captain",
                     "schedule", "rest_day", "status">>

NoStoredOrder == [kind |-> "absent", items |-> <<>>]

InitColumns ==
    /\ columns = DEFAULT_COLUMNS
    /\ storedOrder = NoStoredOrder
    /\ columnsLoaded = FALSE
    /\ moves = 0

InitTable == selectedIds = {}

InitViewer ==
    /\ isAdmin = TRUE
    /\ twinDrivers = <<>>

InitBox ==
    /\ boxFile = NoFile
    /\ boxError = "none"

InitPages == InitEdit /\ InitColumns /\ InitTable /\ InitViewer /\ InitBox

InitTools == InitPhone /\ InitHeader /\ InitExport /\ InitPages

InitView ==
    /\ vDrivers = <<>>
    /\ filters = NoFilters
    /\ searchQuery = EMPTY
    /\ sortKey = NoKey
    /\ sortDirection = NoDirection
    /\ sortBefore = <<NoKey, NoDirection>>
    /\ InitTools

Init ==
    /\ roster \in InitRosters
    /\ uploads = <<>>
    /\ nextId = 3
    /\ clock = 1
    /\ writes = <<>>
    /\ InitAdmin
    /\ InitView

\* handleFileSelect, up to its await of parseFile
setSelectedFile(file) ==
    /\ selectedFile' = file
    /\ showPreview' = FALSE
    /\ previewData' = <<>>
    /\ pending' = Append(pending, file)
    /\ UNCHANGED <<uploadType, isUploading, pc, upFile, upMode, drivers, toast,
                   calls, attempts>>

\* handleFileSelect called with nothing else of the page changing
fileSelected(file) ==
    /\ setSelectedFile(file)
    /\ UNCHANGED storeVars
    /\ UNCHANGED viewVars
    /\ UNCHANGED toolVars

\* handleFileSelect while fewer than MaxPending of its parses are in flight
handleFileSelect(file) ==
    /\ Len(pending) < MaxPending
    /\ fileSelected(file)

RemoveAt(s, i) == SubSeq(s, 1, i - 1) \o SubSeq(s, i + 1, Len(s))

\* handleFileSelect, from the completion of parseFile
previewParsed(i) ==
    /\ i \in DOMAIN pending
    /\ pending' = RemoveAt(pending, i)
    /\ IF parseRejects(pending[i])
       THEN /\ toast' = "Preview failed"
            /\ UNCHANGED <<previewData, showPreview>>
       ELSE /\ previewData' = SubSeq(parseFile(pending[i]), 1,
                                     IF Len(parseFile(pending[i])) < PreviewLimit
                                     THEN Len(parseFile(pending[i])) ELSE PreviewLimit)
            /\ showPreview' = TRUE
            /\ UNCHANGED toast
    /\ UNCHANGED <<selectedFile, uploadType, isUploading, pc, upFile, upMode,
                   drivers, calls, attempts>>
    /\ UNCHANGED storeVars
    /\ UNCHANGED viewVars
    /\ UNCHANGED toolVars

setUploadType(t) ==
    /\ selectedFile # NoFile
    /\ t # uploadType
    /\ uploadType' = t
    /\ UNCHANGED <<selectedFile, isUploading, pc, upFile, upMode, drivers, toast,
                   calls, attempts, previewData, showPreview, pending>>
    /\ UNCHANGED storeVars
    /\ UNCHANGED viewVars
    /\ UNCHANGED toolVars

\* the exits of handleUpload that report an error; the locals of the call end
uploadEnds(title) ==
    /\ toast' = title
    /\ isUploading' = FALSE
    /\ pc' = "idle"
    /\ upFile' = NoFile
    /\ upMode' = "upsert"
    /\ drivers' = <<>>
    /\ UNCHANGED <<selectedFile, uploadType, attempts, previewData, showPreview,
                   pending>>

\* handleUpload, up to its await of parseFile
uploadStart ==
    /\ ~isUploading
    /\ selectedFile # NoFile
    /\ attempts < MaxUploads
    /\ isUploading' = TRUE
    /\ pc' = "parse"
    /\ upFile' = selectedFile
    /\ upMode' = uploadType
    /\ drivers' = <<>>
    /\ calls' = <<>>
    /\ attempts' = attempts + 1
    /\ UNCHANGED <<selectedFile, uploadType, toast, previewData, showPreview, pending>>
    /\ UNCHANGED storeVars
    /\ UNCHANGED viewVars
    /\ UNCHANGED toolVars

\* handleUpload without the drivers.length === 0 return
uploadParsed_NoEmptyCheck ==
    /\ pc = "parse"
    /\ IF parseRejects(upFile)
       THEN uploadEnds("Upload failed")
       ELSE /\ drivers' = parseFile(upFile)
            /\ pc' = IF upMode = "replace" THEN "delete" ELSE "upsert"
            /\ UNCHANGED <<selectedFile, uploadType, isUploading, upFile,
                           upMode, toast, attempts, previewData,
                           showPreview, pending>>
    /\ UNCHANGED calls
    /\ UNCHANGED storeVars
    /\ UNCHANGED viewVars
    /\ UNCHANGED toolVars

\* handleUpload going to the upsert in both modes
uploadParsed_NeverDeletes ==
    /\ pc = "parse"
    /\ IF parseRejects(upFile)
       THEN uploadEnds("Upload failed")
       ELSE IF Len(parseFile(upFile)) = 0
            THEN uploadEnds("No valid data")
            ELSE /\ drivers' = parseFile(upFile)
                 /\ pc' = "upsert"
                 /\ UNCHANGED <<selectedFile, uploadType, isUploading, upFile,
                                upMode, toast, attempts, previewData,
                                showPreview, pending>>
    /\ UNCHANGED calls
    /\ UNCHANGED storeVars
    /\ UNCHANGED viewVars
    /\ UNCHANGED toolVars

\* handleUpload, from the completion of parseFile to the first store call
uploadParsed ==
    /\ pc = "parse"
    /\ IF parseRejects(upFile)
       THEN uploadEnds("Upload failed")
       ELSE IF Len(parseFile(upFile)) = 0
            THEN uploadEnds("No valid data")
            ELSE /\ drivers' = parseFile(upFile)
                 /\ pc' = IF upMode = "replace" THEN "delete" ELSE "upsert"
                 /\ UNCHANGED <<selectedFile, uploadType, isUploading, upFile,
                                upMode, toast, attempts, previewData,
                                showPreview, pending>>
    /\ UNCHANGED calls
    /\ UNCHANGED storeVars
    /\ UNCHANGED viewVars
    /\ UNCHANGED toolVars

\* the delete-all of a replace upload is answered by the store
uploadDeleted(accepted) ==
    /\ pc = "delete"
    /\ calls' = Append(calls, <<"delete", accepted>>)
    /\ IF accepted
       THEN /\ roster' = deleteAll(roster)
            /\ writes' = Append(writes, <<"delete", upMode, <<>> >>)
            /\ pc' = "upsert"
            /\ UNCHANGED <<selectedFile, uploadType, isUploading, upFile, upMode,
                           drivers, toast, attempts, previewData, showPreview,
                           pending>>
       ELSE /\ uploadEnds("Upload failed")
            /\ UNCHANGED <<roster, writes>>
    /\ UNCHANGED <<uploads, nextId, clock>>
    /\ UNCHANGED viewVars
    /\ UNCHANGED toolVars

\* handleUpload going on to the audit insert without looking at upsertError
uploadUpserted_NoErrorCheck(accepted) ==
    /\ pc = "upsert"
    /\ LET res == upsertRows(drivers, roster, nextId, clock, {})
       IN  IF accepted /\ res.ok
           THEN /\ roster' = res.table
                /\ nextId' = res.nextId
                /\ clock' = clock + 1
                /\ writes' = Append(writes, <<"upsert", upMode, drivers>>)
                /\ calls' = Append(calls, <<"upsert", TRUE>>)
           ELSE /\ calls' = Append(calls, <<"upsert", FALSE>>)
                /\ UNCHANGED <<roster, nextId, clock, writes>>
    /\ pc' = "audit"
    /\ UNCHANGED <<selectedFile, uploadType, isUploading, upFile, upMode, drivers,
                   toast, attempts, previewData, showPreview, pending>>
    /\ UNCHANGED uploads
    /\ UNCHANGED viewVars
    /\ UNCHANGED toolVars

\* the upsert is answered by the store
uploadUpserted(accepted) ==
    /\ pc = "upsert"
    /\ LET res == upsertRows(drivers, roster, nextId, clock, {})
       IN  IF accepted /\ res.ok
           THEN /\ roster' = res.table
                /\ nextId' = res.nextId
                /\ clock' = clock + 1
                /\ writes' = Append(writes, <<"upsert", upMode, drivers>>)
                /\ calls' = Append(calls, <<"upsert", TRUE>>)
                /\ pc' = "audit"
                /\ UNCHANGED <<selectedFile, uploadType, isUploading, upFile,
                               upMode, drivers, toast, attempts, previewData,
                               showPreview, pending>>
           ELSE /\ uploadEnds("Upload failed")
                /\ calls' = Append(calls, <<"upsert", FALSE>>)
                /\ UNCHANGED <<roster, nextId, clock, writes>>
    /\ UNCHANGED uploads
    /\ UNCHANGED viewVars
    /\ UNCHANGED toolVars

\* the successful exit leaving the selected file and its preview in place
uploadLogged_KeepsFile(accepted) ==
    /\ pc = "audit"
    /\ calls' = Append(calls, <<"audit", accepted>>)
    /\ IF accepted
       THEN uploads' = Append(uploads,
                              auditRow(User, upFile, upMode, Len(drivers), clock))
       ELSE UNCHANGED uploads
    /\ toast' = "Upload successful"
    /\ isUploading' = FALSE
    /\ pc' = "idle"
    /\ upFile' = NoFile
    /\ upMode' = "upsert"
    /\ drivers' = <<>>
    /\ UNCHANGED <<selectedFile, previewData, showPreview, uploadType, attempts, pending>>
    /\ UNCHANGED <<roster, nextId, clock, writes>>
    /\ UNCHANGED viewVars
    /\ UNCHANGED toolVars

\* the audit insert is answered by the store; its answer is not inspected
uploadLogged(accepted) ==
    /\ pc = "audit"
    /\ calls' = Append(calls, <<"audit", accepted>>)
    /\ IF accepted
       THEN uploads' = Append(uploads,
                              auditRow(User, upFile, upMode, Len(drivers), clock))
       ELSE UNCHANGED uploads
    /\ toast' = "Upload successful"
    /\ selectedFile' = NoFile
    /\ previewData' = <<>>
    /\ showPreview' = FALSE
    /\ isUploading' = FALSE
    /\ pc' = "idle"
    /\ upFile' = NoFile
    /\ upMode' = "upsert"
    /\ drivers' = <<>>
    /\ UNCHANGED <<uploadType, attempts, pending>>
    /\ UNCHANGED <<roster, nextId, clock, writes>>
    /\ UNCHANGED viewVars
    /\ UNCHANGED toolVars

(***************************************************************************)
(* The upload specification.  The administrator picks a file and a mode    *)
(* while no upload is running, and starts at most MaxUploads uploads.      *)
(***************************************************************************)
Next ==
    \/ \E f \in Files : ~isUploading /\ handleFileSelect(f)
    \/ \E i \in 1..MaxPending : previewParsed(i)
    \/ \E t \in {"upsert", "replace"} : setUploadType(t)
    \/ uploadStart
    \/ uploadParsed
    \/ \E accepted \in BOOLEAN : uploadDeleted(accepted)
    \/ \E accepted \in BOOLEAN : uploadUpserted(accepted)
    \/ \E accepted \in BOOLEAN : uploadLogged(accepted)

Spec == Init /\ [][Next]_vars

(***************************************************************************)
(* The parser specification: handleUpload parses one sheet drawn from the  *)
(* sheets of at most MaxSheetRows rows whose cells are present, blank,     *)
(* null, padded, or shadowed by a second header of the same canonical key. *)
(***************************************************************************)
BLANK == <<" ", " ">>

PlateCells == { <<>>,
                << <<H_PLATE, <<" ","P","1"," ">> >> >>,
                << <<H_PLATE, P2>> >> }
IdCells == { << <<H_ID, BLANK>> >>, << <<H_ID, E1>> >> }
NameCells == { << <<H_Name, N1>> >>,
               << <<H_Name, N1>>, <<H_DriverName, <<" ">> >> >>,
               << <<H_Name, N1>>, <<H_DriverName, N2>> >>,
               << <<H_DriverName, N2>> >> }
CaptainCells == { << <<H_Supervisor, C1>> >>, << <<H_Captain, NULL>> >> }

ParseRows ==
    { p \o i \o n \o c \o << <<H_Phone, Tel1>>, <<H_Notes, N1>> >> :
        p \in PlateCells, i \in IdCells, n \in NameCells, c \in CaptainCells }

ParseFiles ==
    {[name |-> "a.xlsx", readable |-> TRUE, rows |-> r] :
        r \in SeqsUpTo(ParseRows, MaxSheetRows)}

InitParse ==
    /\ roster = {}
    /\ uploads = <<>>
    /\ nextId = 3
    /\ clock = 1
    /\ writes = <<>>
    /\ InitView
    /\ selectedFile \in ParseFiles
    /\ uploadType = "upsert"
    /\ isUploading = FALSE
    /\ pc = "idle"
    /\ upFile = NoFile
    /\ upMode = "upsert"
    /\ drivers = <<>>
    /\ toast = "none"
    /\ calls = <<>>
    /\ attempts = 0
    /\ previewData = <<>>
    /\ showPreview = FALSE
    /\ pending = <<>>

NextParse ==
    \/ \E t \in {"upsert", "replace"} : setUploadType(t)
    \/ uploadStart
    \/ uploadParsed

SpecParse == InitParse /\ [][NextParse]_vars

(***************************************************************************)
(* C1.  Row validity.                                                      *)
(***************************************************************************)
\* the text of canonical field `key` in a sheet row: the trimmed cell of the
\* last header that normalises to `key`, empty when there is none or it is null
FieldText(row, key) ==
    LET hits == {i \in DOMAIN row : normalizeHeader(row[i][1]) = key}
    IN  IF hits = {} THEN EMPTY
        ELSE LET last == CHOOSE i \in hits : \A j \in hits : j <= i
             IN  IF row[last][2] \in {NULL, UNDEF} THEN EMPTY ELSE trim(row[last][2])

RequiredKeys == {K_plate, K_employee_id, K_name, K_captain}

RowIsValid(row) == \A k \in RequiredKeys : FieldText(row, k) # EMPTY

\* the indices of the valid rows of a sheet, ascending
RECURSIVE ValidIndices(_, _)
ValidIndices(rows, i) ==
    IF i > Len(rows) THEN <<>>
    ELSE (IF RowIsValid(rows[i]) THEN <<i>> ELSE <<>>) \o ValidIndices(rows, i + 1)

BatchIsValidRowsOf(batch, rows) ==
    LET idx == ValidIndices(rows, 1)
    IN  /\ Len(batch) = Len(idx)
        /\ \A j \in DOMAIN idx :
              /\ batch[j].plate = FieldText(rows[idx[j]], K_plate)
              /\ batch[j].employee_id = FieldText(rows[idx[j]], K_employee_id)
              /\ batch[j].name = FieldText(rows[idx[j]], K_name)
              /\ batch[j].captain = FieldText(rows[idx[j]], K_captain)

\* C1: the batch handleUpload takes to the store is exactly the subsequence, in
\* sheet order, of the rows whose plate, employee_id, name and captain are all
\* non-empty after header normalisation and trimming; invalid rows are dropped
\* one by one and never end the parse of the others.
C1_BatchIsValidSubsequence ==
    [][ (pc = "parse" /\ pc' # "parse" /\ upFile.readable) =>
           IF ValidIndices(upFile.rows, 1) = <<>>
           THEN pc' = "idle" /\ toast' = "No valid data"
           ELSE /\ pc' \in {"delete", "upsert"}
                /\ BatchIsValidRowsOf(drivers', upFile.rows) ]_vars

\* a sheet whose first row lacks a required field and whose second row is
\* valid has been parsed to the second row alone
C1_Witness ==
    /\ pc \in {"delete", "upsert"}
    /\ Len(upFile.rows) >= 2
    /\ ~RowIsValid(upFile.rows[1])
    /\ FieldText(upFile.rows[1], K_captain) = EMPTY
    /\ FieldText(upFile.rows[1], K_plate) # EMPTY
    /\ RowIsValid(upFile.rows[2])
    /\ Len(drivers) = Len(upFile.rows) - 1
    /\ drivers[1].plate = FieldText(upFile.rows[2], K_plate)

(***************************************************************************)
(* The roster view: field filters and free-text search                     *)
(* (RosterTable.filteredDrivers).                                          *)
(***************************************************************************)
ALL == <<"a","l","l">>

\* driver.f?.toLowerCase().includes(query); undefined (falsy) when f is null
optIncludes(v, query) ==
    IF v = NULL \/ v = UNDEF THEN FALSE ELSE includes(toLowerCase(v), query)

\* the search with the query compared as typed
matchesSearch_NoLower(driver, q) ==
    \/ includes(toLowerCase(driver.plate), q)
    \/ includes(toLowerCase(driver.employee_id), q)
    \/ includes(toLowerCase(driver.name), q)
    \/ optIncludes(driver.phone, q)
    \/ optIncludes(driver.telegram_phone, q)
    \/ includes(toLowerCase(driver.captain), q)
    \/ optIncludes(driver.schedule, q)
    \/ optIncludes(driver.rest_day, q)
    \/ optIncludes(driver.status, q)

matchesSearch(driver, q) ==
    LET query == toLowerCase(q)
    IN  \/ includes(toLowerCase(driver.plate), query)
        \/ includes(toLowerCase(driver.employee_id), query)
        \/ includes(toLowerCase(driver.name), query)
        \/ optIncludes(driver.phone, query)
        \/ optIncludes(driver.telegram_phone, query)
        \/ includes(toLowerCase(driver.captain), query)
        \/ optIncludes(driver.schedule, query)
        \/ optIncludes(driver.rest_day, query)
        \/ optIncludes(driver.status, query)

\* the status filter matching a part of the value
passesFilters_Substring(driver, f) ==
    /\ ~(Truthy(f.captain) /\ f.captain # ALL /\ driver.captain # f.captain)
    /\ ~(Truthy(f.schedule) /\ f.schedule # ALL /\ driver.schedule # f.schedule)
    /\ ~(Truthy(f.restDay) /\ f.restDay # ALL /\ driver.rest_day # f.restDay)
    /\ ~(Truthy(f.status) /\ f.status # ALL /\ ~optIncludes(driver.status, f.status))

\* the four early returns of the filter callback
passesFilters(driver, f) ==
    /\ ~(Truthy(f.captain) /\ f.captain # ALL /\ driver.captain # f.captain)
    /\ ~(Truthy(f.schedule) /\ f.schedule # ALL /\ driver.schedule # f.schedule)
    /\ ~(Truthy(f.restDay) /\ f.restDay # ALL /\ driver.rest_day # f.restDay)
    /\ ~(Truthy(f.status) /\ f.status # ALL /\ driver.status # f.status)

keepsDriver(driver, q, f) ==
    IF ~passesFilters(driver, f) THEN FALSE
    ELSE IF Truthy(q) THEN matchesSearch(driver, q)
    ELSE TRUE

\* drivers.filter(callback)
filteredDrivers(ds, q, f) == SelectSeq(ds, LAMBDA driver : keepsDriver(driver, q, f))

(***************************************************************************)
(* The view specification: a roster of at most MaxDrivers records, the     *)
(* filter selects and the search box.                                      *)
(***************************************************************************)
ABC1 == <<"A","B","C","1">>
ABC2 == <<"A","B","C","2">>
ABC3 == <<"a","b","c","3">>
ABC10 == <<"A","B","C","1","0">>
AM == <<"A","M">>
AMX == <<"A","M","X">>
SUN == <<"S","u","n">>

V1 == [ id |-> 1, plate |-> ABC1, employee_id |-> E1, name |-> N1, phone |-> Tel1,
        telegram_phone |-> NULL, captain |-> C1, schedule |-> AM, rest_day |-> NULL,
        status |-> ACTIVE, created_at |-> 0, updated_at |-> 0 ]
V2 == [ id |-> 2, plate |-> ABC2, employee_id |-> E2, name |-> N2, phone |-> NULL,
        telegram_phone |-> Tel2, captain |-> C2, schedule |-> NULL, rest_day |-> SUN,
        status |-> INACTIVE, created_at |-> 0, updated_at |-> 0 ]
V3 == [ id |-> 3, plate |-> ABC3, employee_id |-> E1, name |-> <<"J","A","N">>,
        phone |-> NULL, telegram_phone |-> NULL, captain |-> <<"x">>, schedule |-> AMX,
        rest_day |-> SUN, status |-> <<"A","c","t","i","v","e">>,
        created_at |-> 0, updated_at |-> 0 ]
V4 == [ id |-> 4, plate |-> ABC10, employee_id |-> E2, name |-> N1, phone |-> Tel2,
        telegram_phone |-> Tel1, captain |-> C1, schedule |-> AM, rest_day |-> NULL,
        status |-> NULL, created_at |-> 0, updated_at |-> 0 ]

ViewRecords == {V1, V2, V3, V4}

Queries == { EMPTY, <<"A","N">>, <<"9","1">>, <<"S","U">>, <<"t","i","v">>, <<"z">> }

FilterKeys == {"captain", "schedule", "restDay", "status"}

FilterColumn(driver, key) ==
    CASE key = "captain" -> driver.captain
      [] key = "schedule" -> driver.schedule
      [] key = "restDay" -> driver.rest_day
      [] key = "status" -> driver.status

\* the items of a filter select: 'all' and the distinct non-empty values present
filterOptions(ds, key) ==
    {ALL} \cup {v \in {FilterColumn(ds[i], key) : i \in DOMAIN ds} : Truthy(v)}

\* the rosters the query can return: the id is the primary key
RosterViews ==
    {ds \in SeqsUpTo(ViewRecords, MaxDrivers) :
        \A i, j \in DOMAIN ds : i # j => ds[i].id # ds[j].id}

InitRosterView ==
    /\ roster = {}
    /\ uploads = <<>>
    /\ nextId = 3
    /\ clock = 1
    /\ writes = <<>>
    /\ InitAdmin
    /\ vDrivers \in RosterViews
    /\ filters = NoFilters
    /\ searchQuery = EMPTY
    /\ sortKey = NoKey
    /\ sortDirection = NoDirection
    /\ sortBefore = <<NoKey, NoDirection>>
    /\ InitTools

handleFilterChange(key, value) ==
    /\ filters' = [filters EXCEPT ![key] = value]
    /\ UNCHANGED <<vDrivers, searchQuery, sortKey, sortDirection, sortBefore>>
    /\ UNCHANGED adminVars
    /\ UNCHANGED storeVars
    /\ UNCHANGED toolVars

setSearchQuery(q) ==
    /\ searchQuery' = q
    /\ UNCHANGED <<vDrivers, filters, sortKey, sortDirection, sortBefore>>
    /\ UNCHANGED adminVars
    /\ UNCHANGED storeVars
    /\ UNCHANGED toolVars

NextView ==
    \/ \E key \in FilterKeys : \E value \in filterOptions(vDrivers, key) :
          handleFilterChange(key, value)
    \/ \E q \in Queries : setSearchQuery(q)

SpecView == InitRosterView /\ [][NextView]_vars

(***************************************************************************)
(* C9, C10.  Field filters and free-text search.                           *)
(***************************************************************************)
MeetsConstraints(r) ==
    \A key \in FilterKeys :
        filters[key] # ALL => FilterColumn(r, key) = filters[key]

TextOf(v) == IF v = NULL THEN EMPTY ELSE v

SearchColumns(r) ==
    { r.plate, r.employee_id, r.name, r.phone, r.telegram_phone, r.captain,
      r.schedule, r.rest_day, r.status }

ContainsQuery(r) ==
    \E v \in SearchColumns(r) :
        \E i \in 1..Len(TextOf(v)) :
            /\ i + Len(searchQuery) - 1 <= Len(TextOf(v))
            /\ \A j \in 1..Len(searchQuery) :
                  toLowerChar(TextOf(v)[i + j - 1]) = toLowerChar(searchQuery[j])

MeetsSearch(r) == searchQuery = EMPTY \/ ContainsQuery(r)

\* C9: with an empty search the view keeps exactly the records whose captain,
\* schedule, rest day and status each equal the filter value wherever that
\* value is not 'all' (whole value, case-sensitive, all constraints at once),
\* in input order; with a search it keeps no record that fails a constraint.
C9_FieldFilters ==
    LET out == filteredDrivers(vDrivers, searchQuery, filters)
    IN  /\ searchQuery = EMPTY => out = SelectSeq(vDrivers, MeetsConstraints)
        /\ \A i \in DOMAIN out : MeetsConstraints(out[i])

\* the roster <<ABC1 active, ABC2 inactive>> filtered by status = active
C9_Witness ==
    /\ vDrivers = <<V1, V2>>
    /\ filters = [NoFilters EXCEPT !.status = ACTIVE]
    /\ searchQuery = EMPTY
    /\ filteredDrivers(vDrivers, searchQuery, filters) = <<V1>>

\* C10: a record that passed the field filters is kept iff the search is empty
\* or the lower-cased query occurs in the lower-cased text of one of the nine
\* searched columns, a null column counting as the empty text.
C10_Search ==
    filteredDrivers(vDrivers, searchQuery, filters)
        = SelectSeq(SelectSeq(vDrivers, MeetsConstraints), MeetsSearch)

\* an upper-case query found in the rest day of one record while the other
\* record's rest day is null
C10_Witness ==
    /\ vDrivers = <<V1, V2>>
    /\ searchQuery = <<"S","U">>
    /\ filters = NoFilters
    /\ V1.rest_day = NULL
    /\ filteredDrivers(vDrivers, searchQuery, filters) = <<V2>>

(***************************************************************************)
(* C2 - C8.  Reconciliation and the audit log.                             *)
(***************************************************************************)
AbsentAsNull(v) == IF v = UNDEF THEN NULL ELSE v

\* the nine data columns of a stored row or of a batch record
DataOf(r) ==
    [ plate |-> r.plate, employee_id |-> r.employee_id, name |-> r.name,
      captain |-> r.captain, phone |-> AbsentAsNull(r.phone),
      telegram_phone |-> AbsentAsNull(r.telegram_phone),
      schedule |-> AbsentAsNull(r.schedule), rest_day |-> AbsentAsNull(r.rest_day),
      status |-> AbsentAsNull(r.status) ]

\* the table holds one row for each record of the batch, and nothing else
SameRecords(table, batch) ==
    /\ Cardinality(table) = Len(batch)
    /\ \A i \in DOMAIN batch : \E r \in table : DataOf(r) = DataOf(batch[i])
    /\ \A r \in table : \E i \in DOMAIN batch : DataOf(r) = DataOf(batch[i])

UploadReturns == pc # "idle" /\ pc' = "idle"

\* C2 as claimed: whenever a replace-mode upload of a readable sheet returns,
\* the store holds exactly the valid rows of the sheet.
C2_ReplaceLeavesBatch ==
    [][ (UploadReturns /\ upMode = "replace" /\ upFile.readable) =>
           SameRecords(roster', IF pc = "parse" THEN parseFile(upFile) ELSE drivers)
      ]_vars

\* C2 as amended: whenever a replace-mode upload returns reporting success,
\* the store holds exactly the valid rows of the sheet, whatever it held
\* before; their plates are then pairwise distinct.
C2_ReplaceLeavesBatchOnSuccess ==
    [][ (UploadReturns /\ upMode = "replace" /\ toast' = "Upload successful") =>
           /\ pc = "audit"
           /\ BatchIsValidRowsOf(drivers, upFile.rows)
           /\ SameRecords(roster', drivers)
           /\ \A i, j \in DOMAIN drivers : i # j => drivers[i].plate # drivers[j].plate
      ]_vars

\* a second upload, in replace mode, of two valid rows has returned with
\* success over a store the first upload had filled
C2_Witness ==
    /\ pc = "idle"
    /\ toast = "Upload successful"
    /\ Len(uploads) = 2
    /\ uploads[2].upload_type = "replace"
    /\ uploads[2].records_count = 2
    /\ Len(writes) = 3
    /\ writes[1][1] = "upsert"
    /\ writes[2][1] = "delete"
    /\ SameRecords(roster, writes[3][3])

Stable(r) ==
    [ id |-> r.id, created_at |-> r.created_at, data |-> DataOf(r) ]

\* C4: an accepted upsert, in upsert mode, of the batch that the last accepted
\* roster write already upserted in upsert mode leaves the number of rows and
\* every column but updated_at as they were.
C4_UpsertIdempotent ==
    [][ (pc = "upsert" /\ pc' = "audit" /\ upMode = "upsert"
            /\ writes # <<>> /\ writes[Len(writes)] = <<"upsert", "upsert", drivers>>) =>
           /\ Cardinality(roster') = Cardinality(roster)
           /\ {Stable(r) : r \in roster'} = {Stable(r) : r \in roster}
      ]_vars

\* the same batch of two rows has been upserted twice in a row
C4_Witness ==
    /\ pc = "audit"
    /\ Len(writes) = 2
    /\ writes[1] = writes[2]
    /\ writes[2] = <<"upsert", "upsert", drivers>>
    /\ Len(drivers) = 2

\* C5 as claimed: every upload that reports success has appended exactly one
\* audit row with the user, the file name, the mode and the number of valid
\* rows; no step changes or removes an audit row.
C5_AuditRowPerSuccess ==
    [][ /\ Len(uploads') >= Len(uploads)
        /\ SubSeq(uploads', 1, Len(uploads)) = uploads
        /\ (UploadReturns /\ toast' = "Upload successful") =>
              /\ Len(uploads') = Len(uploads) + 1
              /\ uploads'[Len(uploads')].uploaded_by = User
              /\ uploads'[Len(uploads')].file_name = upFile.name
              /\ uploads'[Len(uploads')].upload_type = upMode
              /\ uploads'[Len(uploads')].records_count =
                    Len(ValidIndices(upFile.rows, 1))
      ]_vars

Rejected(op) == calls' = Append(calls, <<op, FALSE>>)

\* C6: the step in which the store rejects the delete-all or the upsert ends
\* the upload with the failure notice, leaves roster and audit log as they
\* are, and no upload issues a store call twice.
C6_RejectionEndsUpload ==
    [][ /\ (Rejected("delete") \/ Rejected("upsert")) =>
              /\ toast' = "Upload failed"
              /\ pc' = "idle"
              /\ ~isUploading'
              /\ uploads' = uploads
              /\ roster' = roster
        /\ \A i, j \in DOMAIN calls' : i # j => calls'[i][1] # calls'[j][1]
      ]_vars

\* an upsert-mode upload whose upsert the store rejected has ended
C6_Witness ==
    /\ pc = "idle"
    /\ calls = << <<"upsert", FALSE>> >>
    /\ toast = "Upload failed"
    /\ ~isUploading
    /\ uploads = <<>>
    /\ selectedFile # NoFile

\* C7: an upload whose sheet has no valid row ends with the no-valid-data
\* notice at once, in either mode: no store call is issued, roster and audit
\* log are as they were.
C7_NoValidRows ==
    [][ (pc = "parse" /\ pc' # "parse" /\ upFile.readable
            /\ ValidIndices(upFile.rows, 1) = <<>>) =>
           /\ toast' = "No valid data"
           /\ pc' = "idle"
           /\ ~isUploading'
           /\ calls' = <<>>
           /\ roster' = roster
           /\ uploads' = uploads
           /\ writes' = writes
      ]_vars

\* a sheet of invalid rows was uploaded with `replace` chosen over a filled
\* store
C7_Witness ==
    /\ pc = "idle"
    /\ toast = "No valid data"
    /\ uploadType = "replace"
    /\ attempts = 1
    /\ selectedFile.rows # <<>>
    /\ ValidIndices(selectedFile.rows, 1) = <<>>
    /\ calls = <<>>
    /\ writes = <<>>
    /\ roster = {Old1, Old9}
    /\ uploads = <<>>

\* C8: in replace mode the upsert is issued after the delete-all was accepted,
\* over the emptied store; when the store then rejects the upsert the upload
\* ends with the failure notice, the store stays empty and no audit row is
\* written.
C8_ReplaceNotAtomic ==
    [][ (pc = "upsert" /\ upMode = "replace") =>
           /\ calls = << <<"delete", TRUE>> >>
           /\ roster = {}
           /\ Rejected("upsert") =>
                 /\ roster' = {}
                 /\ toast' = "Upload failed"
                 /\ pc' = "idle"
                 /\ uploads' = uploads
      ]_vars

\* a first upload filled the store, a second one in replace mode emptied it
\* and failed
C8_Witness ==
    /\ pc = "idle"
    /\ calls = << <<"delete", TRUE>>, <<"upsert", FALSE>> >>
    /\ Len(writes) = 2
    /\ writes[1][1] = "upsert"
    /\ writes[2] = <<"delete", "replace", <<>> >>
    /\ roster = {}
    /\ toast = "Upload failed"
    /\ Len(uploads) = 1

(***************************************************************************)
(* The sort stage of the roster table (RosterTable.sortedDrivers) and the  *)
(* three-state column sort (RosterTable.handleSort).                       *)
(*                                                                         *)
(* localeCompare(_, undefined, {numeric: true}) is computed as the root    *)
(* collation computes it on the characters used here: white space before   *)
(* punctuation before digits before letters, a run of digits compared by   *)
(* its value, letters compared without case first and, when nothing else   *)
(* differs, lower case before upper case.                                  *)
(***************************************************************************)
Digits == <<"0","1","2","3","4","5","6","7","8","9">>

IsDigit(c) == \E i \in DOMAIN Digits : Digits[i] = c

digitValue(c) == (CHOOSE i \in DOMAIN Digits : Digits[i] = c) - 1

IsLetter(c) == \E i \in DOMAIN LowerChars : LowerChars[i] = toLowerChar(c)

primaryWeight(c) ==
    IF IsSpace(c) THEN 1
    ELSE IF IsDigit(c) THEN 10 + digitValue(c)
    ELSE IF IsLetter(c)
         THEN 100 + (CHOOSE i \in DOMAIN LowerChars : LowerChars[i] = toLowerChar(c))
    ELSE 2

sign(n) == IF n < 0 THEN -1 ELSE IF n > 0 THEN 1 ELSE 0

RECURSIVE digitRunLen(_)
digitRunLen(s) ==
    IF s # <<>> /\ IsDigit(Head(s)) THEN 1 + digitRunLen(Tail(s)) ELSE 0

RECURSIVE numberOf(_)
numberOf(s) ==
    IF s = <<>> THEN 0
    ELSE 10 * numberOf(SubSeq(s, 1, Len(s) - 1)) + digitValue(s[Len(s)])

RECURSIVE comparePrimary(_, _)
comparePrimary(a, b) ==
    IF a = <<>> \/ b = <<>>
    THEN (IF a = b THEN 0 ELSE IF a = <<>> THEN -1 ELSE 1)
    ELSE IF IsDigit(Head(a)) /\ IsDigit(Head(b))
    THEN LET la == digitRunLen(a)
             lb == digitRunLen(b)
             na == numberOf(SubSeq(a, 1, la))
             nb == numberOf(SubSeq(b, 1, lb))
         IN  IF na # nb THEN sign(na - nb)
             ELSE comparePrimary(SubSeq(a, la + 1, Len(a)), SubSeq(b, lb + 1, Len(b)))
    ELSE IF primaryWeight(Head(a)) # primaryWeight(Head(b))
    THEN sign(primaryWeight(Head(a)) - primaryWeight(Head(b)))
    ELSE comparePrimary(Tail(a), Tail(b))

\* the case level, consulted for texts that are equal at the primary level
RECURSIVE compareCase(_, _)
compareCase(a, b) ==
    IF a = <<>> \/ b = <<>> THEN 0
    ELSE IF IsDigit(Head(a)) /\ IsDigit(Head(b))
    THEN compareCase(SubSeq(a, digitRunLen(a) + 1, Len(a)),
                     SubSeq(b, digitRunLen(b) + 1, Len(b)))
    ELSE IF Head(a) = Head(b) THEN compareCase(Tail(a), Tail(b))
    ELSE IF toLowerChar(Head(a)) = Head(a) THEN -1 ELSE 1

localeCompare(a, b) ==
    LET p == comparePrimary(a, b)
    IN  IF p # 0 THEN p ELSE compareCase(a, b)

\* String(v ?? '')
orEmptyText(v) == IF v = NULL \/ v = UNDEF THEN EMPTY ELSE v

\* the columns whose header calls handleSort (sortable: true)
SortableKeys == {"plate", "employee_id", "name", "captain", "schedule",
                 "rest_day", "status"}

\* the comparator handed to Array.prototype.sort
compareDrivers(a, b, key, dir) ==
    IF key \notin SortableKeys THEN 0
    ELSE LET aVal == a[key]
             bVal == b[key]
             comparison == localeCompare(orEmptyText(aVal), orEmptyText(bVal))
         IN  IF dir = "asc" THEN comparison ELSE -comparison

\* Array.prototype.sort is stable: an element goes behind every element that
\* does not compare greater than it
RECURSIVE insertDriver(_, _, _, _)
insertDriver(x, s, key, dir) ==
    IF s = <<>> THEN <<x>>
    ELSE IF compareDrivers(x, Head(s), key, dir) < 0 THEN <<x>> \o s
    ELSE <<Head(s)>> \o insertDriver(x, Tail(s), key, dir)

RECURSIVE sortDrivers(_, _, _)
sortDrivers(ds, key, dir) ==
    IF ds = <<>> THEN <<>>
    ELSE insertDriver(ds[Len(ds)], sortDrivers(SubSeq(ds, 1, Len(ds) - 1), key, dir),
                      key, dir)

Reverse(s) == [i \in DOMAIN s |-> s[Len(s) + 1 - i]]

\* the descending order obtained by reversing the ascending one
sortedDrivers_ReverseDesc(ds, key, dir) ==
    IF key = NoKey \/ dir = NoDirection THEN ds
    ELSE IF dir = "asc" THEN sortDrivers(ds, key, "asc")
    ELSE Reverse(sortDrivers(ds, key, "asc"))

sortedDrivers(ds, key, dir) ==
    IF key = NoKey \/ dir = NoDirection THEN ds
    ELSE sortDrivers(ds, key, dir)

\* a column that toggles between ascending and descending only
handleSort_TwoState(key) ==
    /\ IF sortKey = key
       THEN /\ sortDirection' = (IF sortDirection = "asc" THEN "desc" ELSE "asc")
            /\ UNCHANGED sortKey
       ELSE /\ sortKey' = key
            /\ sortDirection' = "asc"
    /\ sortBefore' = <<sortKey, sortDirection>>
    /\ UNCHANGED <<vDrivers, filters, searchQuery>>
    /\ UNCHANGED adminVars
    /\ UNCHANGED storeVars
    /\ UNCHANGED toolVars

handleSort(key) ==
    /\ IF sortKey = key
       THEN IF sortDirection = "asc"
            THEN /\ sortDirection' = "desc"
                 /\ UNCHANGED sortKey
            ELSE IF sortDirection = "desc"
            THEN /\ sortKey' = NoKey
                 /\ sortDirection' = NoDirection
            ELSE UNCHANGED <<sortKey, sortDirection>>
       ELSE /\ sortKey' = key
            /\ sortDirection' = "asc"
    /\ sortBefore' = <<sortKey, sortDirection>>
    /\ UNCHANGED <<vDrivers, filters, searchQuery>>
    /\ UNCHANGED adminVars
    /\ UNCHANGED storeVars
    /\ UNCHANGED toolVars

NextSort ==
    \/ \E key \in FilterKeys : \E value \in filterOptions(vDrivers, key) :
          handleFilterChange(key, value)
    \/ \E key \in SortableKeys : handleSort(key)

SpecSort == InitRosterView /\ [][NextSort]_vars

(***************************************************************************)
(* C11, C12.  The sort stage and the sort state.                           *)
(***************************************************************************)
\* C11: with a sort key and direction set, the sort stage outputs the filtered
\* list rearranged by a permutation under which every earlier record compares
\* not after a later one on the chosen field in the chosen direction, and
\* records that compare equal stay in their input order (ascending and
\* descending alike); with no sort key or direction it outputs the filtered
\* list as it is.
C11_SortStage ==
    LET input == filteredDrivers(vDrivers, searchQuery, filters)
        out == sortedDrivers(input, sortKey, sortDirection)
        n == Len(input)
    IN  IF sortKey = NoKey \/ sortDirection = NoDirection
        THEN out = input
        ELSE /\ Len(out) = n
             /\ \E p \in Permutations(1..n) :
                  /\ \A i \in 1..n : out[i] = input[p[i]]
                  /\ \A i \in 1..n : \A j \in (i + 1)..n :
                       LET c == localeCompare(orEmptyText(out[i][sortKey]),
                                              orEmptyText(out[j][sortKey]))
                       IN  /\ sortDirection = "asc" => c <= 0
                           /\ sortDirection = "desc" => c >= 0
                           /\ c = 0 => p[i] < p[j]

\* two records of equal name sorted by name, descending: they keep their order
C11_Witness ==
    /\ vDrivers = <<V4, V1>>
    /\ filters = NoFilters
    /\ sortKey = "name"
    /\ sortDirection = "desc"
    /\ V4.name = V1.name
    /\ sortedDrivers(filteredDrivers(vDrivers, searchQuery, filters),
                     sortKey, sortDirection) = <<V4, V1>>

\* C12: sortKey is null iff sortDirection is null in every state, and every
\* activation of a column header moves the sort state along the cycle: from
\* unsorted or from another column to that column ascending, from ascending to
\* descending on the same column, from descending to unsorted.
C12_SortCycle ==
    /\ [](sortKey = NoKey <=> sortDirection = NoDirection)
    /\ [][ \/ /\ sortKey' \in SortableKeys \ {sortKey}
              /\ sortDirection' = "asc"
           \/ /\ sortDirection = "asc"
              /\ sortKey' = sortKey
              /\ sortDirection' = "desc"
           \/ /\ sortDirection = "desc"
              /\ sortKey' = NoKey
              /\ sortDirection' = NoDirection
         ]_<<sortKey, sortDirection, sortBefore>>

\* the third activation of the name column has returned it to unsorted
C12_Witness ==
    /\ sortBefore = <<"name", "desc">>
    /\ sortKey = NoKey
    /\ sortDirection = NoDirection

(***************************************************************************)
(* Phone utilities: normalizePhoneToE164 and maskPhoneNumber.              *)
(***************************************************************************)
startsWith(s, prefix) ==
    Len(s) >= Len(prefix) /\ SubSeq(s, 1, Len(prefix)) = prefix

\* the characters phone.replace(/[^\d+]/g, '') keeps
IsPhoneChar(c) == IsDigit(c) \/ c = "+"

cleanedPhone(phone) == SelectSeq(phone, IsPhoneChar)

PLUS == <<"+">>
PLUS63 == <<"+","6","3">>

\* the 0-prefixed branch keeping the trunk zero
normalizePhoneToE164_KeepZero(phone) ==
    IF ~Truthy(phone) THEN NULL
    ELSE LET cleaned == cleanedPhone(phone)
         IN  IF startsWith(cleaned, PLUS63) THEN cleaned
             ELSE IF startsWith(cleaned, <<"6","3">>) /\ Len(cleaned) >= 12
             THEN PLUS \o cleaned
             ELSE IF startsWith(cleaned, <<"0">>) /\ Len(cleaned) = 11
             THEN PLUS63 \o cleaned
             ELSE IF Len(cleaned) = 10 /\ startsWith(cleaned, <<"9">>)
             THEN PLUS63 \o cleaned
             ELSE IF startsWith(cleaned, PLUS) THEN cleaned ELSE PLUS \o cleaned

\* the pass-through branch prefixing '+' unconditionally
normalizePhoneToE164_AlwaysPlus(phone) ==
    IF ~Truthy(phone) THEN NULL
    ELSE LET cleaned == cleanedPhone(phone)
         IN  IF startsWith(cleaned, PLUS63) THEN cleaned
             ELSE IF startsWith(cleaned, <<"6","3">>) /\ Len(cleaned) >= 12
             THEN PLUS \o cleaned
             ELSE IF startsWith(cleaned, <<"0">>) /\ Len(cleaned) = 11
             THEN PLUS63 \o SubSeq(cleaned, 2, Len(cleaned))
             ELSE IF Len(cleaned) = 10 /\ startsWith(cleaned, <<"9">>)
             THEN PLUS63 \o cleaned
             ELSE PLUS \o cleaned

normalizePhoneToE164(phone) ==
    IF ~Truthy(phone) THEN NULL
    ELSE LET cleaned == cleanedPhone(phone)
         IN  IF startsWith(cleaned, PLUS63) THEN cleaned
             ELSE IF startsWith(cleaned, <<"6","3">>) /\ Len(cleaned) >= 12
             THEN PLUS \o cleaned
             ELSE IF startsWith(cleaned, <<"0">>) /\ Len(cleaned) = 11
             THEN PLUS63 \o SubSeq(cleaned, 2, Len(cleaned))
             ELSE IF Len(cleaned) = 10 /\ startsWith(cleaned, <<"9">>)
             THEN PLUS63 \o cleaned
             ELSE IF startsWith(cleaned, PLUS) THEN cleaned ELSE PLUS \o cleaned

\* s.slice(-n)
sliceLast(s, n) == IF Len(s) <= n THEN s ELSE SubSeq(s, Len(s) - n + 1, Len(s))

\* s.slice(0, n)
sliceFirst(s, n) == IF Len(s) <= n THEN s ELSE SubSeq(s, 1, n)

\* '*'.repeat(n)
stars(n) == [i \in 1..n |-> "*"]

DASH == <<"-">>
MaskTemplate == <<"+","6","3"," ","9","*","*"," ","*","*","*"," ">>

\* the general branch showing four leading characters
maskPhoneNumber_ShowsFour(phone) ==
    IF ~Truthy(phone) THEN DASH
    ELSE LET e164 == normalizePhoneToE164(phone)
         IN  IF ~Truthy(e164) THEN phone
             ELSE IF startsWith(e164, PLUS63) /\ Len(e164) = 13
             THEN MaskTemplate \o sliceLast(e164, 4)
             ELSE IF Len(e164) > 8
             THEN sliceFirst(e164, 4) \o stars(Len(e164) - 8) \o sliceLast(e164, 4)
             ELSE e164

maskPhoneNumber(phone) ==
    IF ~Truthy(phone) THEN DASH
    ELSE LET e164 == normalizePhoneToE164(phone)
         IN  IF ~Truthy(e164) THEN phone
             ELSE IF startsWith(e164, PLUS63) /\ Len(e164) = 13
             THEN MaskTemplate \o sliceLast(e164, 4)
             ELSE IF Len(e164) > 7
             THEN sliceFirst(e164, 3) \o stars(Len(e164) - 7) \o sliceLast(e164, 4)
             ELSE e164

(***************************************************************************)
(* Phone values: subscriber numbers that differ in a middle digit, in the  *)
(* last digit or in length, written with and without separators, behind    *)
(* the prefixes people type; and values no numbering plan matches.         *)
(***************************************************************************)
Sub1 == <<"9","1","7","1","2","3","4","5","6","7">>
Sub2 == <<"9","1","8","1","2","3","4","5","6","7">>
Sub3 == <<"9","1","7","1","2","3","4","5","6","8">>
Sub4 == <<"9","1","7","-","1","2","3"," ","4","5","6","7">>
Sub5 == <<"9","1","7","+","1","2","3","4","5","6","7">>
Sub6 == <<"8","1","7","1","2","3","4","5","6","7">>
Sub7 == <<"9","1","7","1","2","3","4","5","6","7","0">>

Subscribers == {Sub1, Sub2, Sub3, Sub4, Sub5, Sub6, Sub7}

PhonePrefixes == { <<>>, <<"0">>, <<"6","3">>, <<"+","6","3">>, <<"+","6","3"," ">>,
                   <<"(","0",")">>, <<"+","1">>, <<"+","4","4">>, <<" ","+">> }

ShortPhones == { NULL, UNDEF, EMPTY, <<" ">>, <<"n","/","a">>, <<"+">>,
                 <<"9","1","1">>, <<"+","6","3">>, <<"6","3","9">>,
                 <<"1","2","3","4","5","6">>, <<"1","2","3","4","5","6","7">>,
                 <<"1","2","9","4","5","6","7">> }

PhoneValues == {pre \o sub : pre \in PhonePrefixes, sub \in Subscribers} \cup ShortPhones

InitPhoneUtils ==
    /\ roster = {}
    /\ uploads = <<>>
    /\ nextId = 3
    /\ clock = 1
    /\ writes = <<>>
    /\ InitAdmin
    /\ vDrivers = <<>>
    /\ filters = NoFilters
    /\ searchQuery = EMPTY
    /\ sortKey = NoKey
    /\ sortDirection = NoDirection
    /\ sortBefore = <<NoKey, NoDirection>>
    /\ phoneA \in PhoneValues
    /\ phoneB \in PhoneValues
    /\ phoneCall = "none"
    /\ phoneTrace = <<>>
    /\ InitHeader
    /\ InitExport
    /\ InitPages

\* getTelLink / getTelegramLink / formatPhoneForDisplay: the values normalised
callNormalize ==
    /\ phoneCall = "none"
    /\ phoneCall' = "normalize"
    /\ phoneTrace' = << <<normalizePhoneToE164(phoneA), normalizePhoneToE164(phoneB)>> >>
    /\ UNCHANGED <<phoneA, phoneB>>
    /\ UNCHANGED <<adminVars, storeVars, viewVars, headerVars, exportVars, pageVars>>

\* a stored canonical value normalised again
callNormalizeAgain ==
    /\ phoneCall = "normalize"
    /\ Len(phoneTrace) = 1
    /\ phoneTrace' = Append(phoneTrace,
                            <<normalizePhoneToE164(phoneTrace[1][1]),
                              normalizePhoneToE164(phoneTrace[1][2])>>)
    /\ UNCHANGED <<phoneA, phoneB, phoneCall>>
    /\ UNCHANGED <<adminVars, storeVars, viewVars, headerVars, exportVars, pageVars>>

\* renderCellContent for a viewer who is not an admin: the values masked
callMask ==
    /\ phoneCall = "none"
    /\ phoneCall' = "mask"
    /\ phoneTrace' = << <<maskPhoneNumber(phoneA), maskPhoneNumber(phoneB)>> >>
    /\ UNCHANGED <<phoneA, phoneB>>
    /\ UNCHANGED <<adminVars, storeVars, viewVars, headerVars, exportVars, pageVars>>

NextPhone ==
    \/ callNormalize
    \/ callNormalizeAgain
    \/ callMask

SpecPhone == InitPhoneUtils /\ [][NextPhone]_vars

(***************************************************************************)
(* C13 - C16.  The phone normaliser and the mask.                          *)
(***************************************************************************)
DigitChars == {"0","1","2","3","4","5","6","7","8","9"}

KeptChar(c) == c \in DigitChars \cup {"+"}

\* the input without the characters that are neither a digit nor '+'
StrippedForm(x) == SelectSeq(x, KeptChar)

AllDigits(s) == \A i \in DOMAIN s : s[i] \in DigitChars

Absent(x) == x \in {NULL, UNDEF, EMPTY}

PhoneInput(k) == IF k = 1 THEN phoneA ELSE phoneB

NormalizedAs(x, r) ==
    IF Absent(x) THEN r = NULL
    ELSE LET t == StrippedForm(x)
         IN  /\ (Len(t) = 11 /\ AllDigits(t) /\ t[1] = "0")
                    => r = <<"+","6","3">> \o SubSeq(t, 2, 11)
             /\ (Len(t) = 10 /\ AllDigits(t) /\ t[1] = "9")
                    => r = <<"+","6","3">> \o t
             /\ (Len(t) >= 12 /\ t[1] = "6" /\ t[2] = "3")
                    => r = <<"+">> \o t

\* C13: normalizePhoneToE164 returns '+63' and the last 10 digits for a
\* stripped form of 11 digits starting with 0, '+63' and the 10 digits for a
\* stripped form of 10 digits starting with 9, '+' and the stripped form for a
\* stripped form of 12 or more characters starting with 63, and null for an
\* empty or absent input.
C13_NormalizeByShape ==
    (phoneCall = "normalize") =>
        \A k \in {1, 2} : NormalizedAs(PhoneInput(k), phoneTrace[1][k])

\* a local number typed with separators, and an absent value
C13_Witness ==
    /\ phoneCall = "normalize"
    /\ phoneA = <<"(","0",")">> \o Sub4
    /\ phoneTrace[1][1] = <<"+","6","3">> \o Sub1
    /\ phoneB = NULL
    /\ phoneTrace[1][2] = NULL

\* C14: normalising the result of normalizePhoneToE164 again returns that
\* result, for every non-empty input, +63-prefixed or not.
C14_NormalizeIdempotent ==
    (phoneCall = "normalize" /\ Len(phoneTrace) = 2) =>
        \A k \in {1, 2} :
            ~Absent(PhoneInput(k)) => phoneTrace[2][k] = phoneTrace[1][k]

\* a +63 value typed with separators and a value of no known shape
C14_Witness ==
    /\ phoneCall = "normalize"
    /\ Len(phoneTrace) = 2
    /\ phoneA = <<"+","6","3"," ">> \o Sub4
    /\ phoneTrace[2][1] = <<"+","6","3">> \o Sub1
    /\ phoneB = <<"9","1","1">>
    /\ phoneTrace[2][2] = <<"+","9","1","1">>

\* C15: for every non-empty input the result of normalizePhoneToE164 is one
\* '+' followed by digits only, with no '+' at a later position.
C15_PlusThenDigits ==
    (phoneCall = "normalize") =>
        \A k \in {1, 2} :
            ~Absent(PhoneInput(k)) =>
                LET r == phoneTrace[1][k]
                IN  /\ Len(r) >= 1
                    /\ r[1] = "+"
                    /\ \A i \in 2..Len(r) : r[i] \in DigitChars

CanonicalForm(x) == normalizePhoneToE164(x)

Middle(s) == SubSeq(s, 4, Len(s) - 4)

\* C16: two phone values whose canonical forms agree in length, in the first
\* three characters (the country prefix) and in the last four produce the same
\* masked text; and the masked text of a canonical form longer than 7 is that
\* prefix, a filler that does not depend on the number (stars, or the fixed
\* ' 9** *** ' of the regional pattern) and the last four.
C16_MaskHidesMiddle ==
    (phoneCall = "mask") =>
        LET ca == CanonicalForm(phoneA)
            cb == CanonicalForm(phoneB)
        IN  /\ ( /\ Len(ca) = Len(cb)
                 /\ sliceFirst(ca, 3) = sliceFirst(cb, 3)
                 /\ sliceLast(ca, 4) = sliceLast(cb, 4) )
                   => phoneTrace[1][1] = phoneTrace[1][2]
            /\ \A k \in {1, 2} :
                 LET c == CanonicalForm(PhoneInput(k))
                     m == phoneTrace[1][k]
                 IN  (~Absent(PhoneInput(k)) /\ Len(c) > 7) =>
                        /\ Len(m) > 7
                        /\ sliceFirst(m, 3) = sliceFirst(c, 3)
                        /\ sliceLast(m, 4) = sliceLast(c, 4)
                        /\ \/ Middle(m) = <<" ","9","*","*"," ","*","*","*"," ">>
                           \/ \A i \in DOMAIN Middle(m) : Middle(m)[i] = "*"

\* two numbers that differ in a middle digit only, typed in different formats
C16_Witness ==
    /\ phoneCall = "mask"
    /\ phoneA = <<"0">> \o Sub1
    /\ phoneB = <<"+","6","3"," ">> \o Sub2
    /\ CanonicalForm(phoneA) # CanonicalForm(phoneB)
    /\ phoneTrace[1][1] = <<"+","6","3"," ","9","*","*"," ","*","*","*"," ","4","5","6","7">>
    /\ phoneTrace[1][2] = phoneTrace[1][1]

(***************************************************************************)
(* The header normaliser applied to a column header and to a respelling    *)
(* of it: other letter case, other surrounding white space.                *)
(***************************************************************************)
toUpperChar(c) ==
    IF \E i \in DOMAIN LowerChars : LowerChars[i] = c
    THEN UpperChars[CHOOSE i \in DOMAIN LowerChars : LowerChars[i] = c]
    ELSE c

toUpperCase(s) == [i \in DOMAIN s |-> toUpperChar(s[i])]

\* every second letter in upper case
alternateCase(s) ==
    [i \in DOMAIN s |-> IF i % 2 = 1 THEN toUpperChar(s[i]) ELSE toLowerChar(s[i])]

Paddings == { <<>>, <<" ">>, <<"\t", " ">> }

Respellings(h) ==
    LET core == trim(h)
    IN  { l \o c \o r :
            l \in Paddings, r \in Paddings,
            c \in {core, toUpperCase(core), toLowerCase(core), alternateCase(core)} }

\* headers of the synonym table, headers it does not list, and headers as
\* they are typed in a sheet
RawHeaders ==
    {m[1] : m \in mappings}
    \cup {m[1] : m \in inherited}
    \cup { H_PLATE, H_ID, H_Name, H_DriverName, H_Captain, H_Supervisor, H_Phone,
           H_Status, H_Notes, EMPTY,
           <<" ","D","r","i","v","e","r"," ","N","a","m","e"," ">>,
           <<"D","r","i","v","e","r"," "," ","N","a","m","e">>,
           <<"P","l","a","t","e"," ","N","o">>,
           <<"R","e","m","a","r","k","s">> }

InitHeaderUtils ==
    /\ roster = {}
    /\ uploads = <<>>
    /\ nextId = 3
    /\ clock = 1
    /\ writes = <<>>
    /\ InitAdmin
    /\ vDrivers = <<>>
    /\ filters = NoFilters
    /\ searchQuery = EMPTY
    /\ sortKey = NoKey
    /\ sortDirection = NoDirection
    /\ sortBefore = <<NoKey, NoDirection>>
    /\ InitPhone
    /\ headerA \in RawHeaders
    /\ headerB \in Respellings(headerA)
    /\ headerResult = <<>>
    /\ InitExport
    /\ InitPages

\* parseFile normalising the keys of a row
callNormalizeHeader ==
    /\ headerResult = <<>>
    /\ headerResult' = <<normalizeHeader(headerA), normalizeHeader(headerB)>>
    /\ UNCHANGED <<headerA, headerB>>
    /\ UNCHANGED <<adminVars, storeVars, viewVars, phoneVars, exportVars, pageVars>>

NextHeader == callNormalizeHeader

SpecHeader == InitHeaderUtils /\ [][NextHeader]_vars

(***************************************************************************)
(* C17.  Header normalisation.                                             *)
(***************************************************************************)
InSynonymTable(h) == \E m \in mappings : m[1] = toLowerCase(trim(h))

\* C17: a header and a respelling of it that differs in letter case or in
\* surrounding white space only normalise to the same key; ' Driver Name ' and
\* 'driver_name' give 'name'; a header the synonym table does not list
\* is returned trimmed and lower-cased.
C17_HeaderInsensitive ==
    (headerResult # <<>>) =>
        /\ headerResult[1] = headerResult[2]
        /\ headerA \in { <<" ","D","r","i","v","e","r"," ","N","a","m","e"," ">>,
                         <<"d","r","i","v","e","r","_","n","a","m","e">> }
              => headerResult[1] = <<"n","a","m","e">>
        /\ ~InSynonymTable(headerA) => headerResult[1] = toLowerCase(trim(headerA))

(***************************************************************************)
(* C18.  Two headers of one row with the same canonical key.               *)
(***************************************************************************)
\* the entries of a row whose header normalises to `key`
EntriesOf(row, key) == {i \in DOMAIN row : normalizeHeader(row[i][1]) = key}

DriverField(d, key) ==
    CASE key = K_plate -> d.plate
      [] key = K_employee_id -> d.employee_id
      [] key = K_name -> d.name
      [] key = K_captain -> d.captain

\* C18: when two distinct headers of a row normalise to the same required key,
\* the parsed field is the trimmed cell of the one that comes last in the row:
\* a row that is kept carries that value, and a row whose last such cell is
\* empty is dropped as invalid although an earlier cell is not empty.
C18_LastHeaderWins ==
    [][ (pc = "parse" /\ pc' # "parse" /\ upFile.readable) =>
           \A rows \in {upFile.rows} : \A idx \in {ValidIndices(rows, 1)} :
             /\ Len(drivers') = Len(idx)
             /\ \A i \in DOMAIN rows : \A key \in RequiredKeys :
                  \A hits \in {EntriesOf(rows[i], key)} :
                    (\E e, o \in hits : rows[i][e][1] # rows[i][o][1]) =>
                      \A last \in {e \in hits : \A o \in hits : o <= e} :
                        \A text \in {cellText(rows[i][last][2])} :
                          IF text = EMPTY
                          THEN \A j \in DOMAIN idx : idx[j] # i
                          ELSE (\E j \in DOMAIN idx : idx[j] = i) =>
                                 \E j \in DOMAIN idx :
                                    /\ idx[j] = i
                                    /\ DriverField(drivers'[j], key) = text ]_vars

\* a sheet of two rows, each with the headers 'Name' and 'Driver Name': the
\* first row's last name cell is blank and the row is gone, the second row is
\* parsed with the name of its last cell
C18_Witness ==
    /\ pc \in {"delete", "upsert"}
    /\ Len(upFile.rows) = 2
    /\ \E i, j \in DOMAIN upFile.rows[1] :
          /\ i < j
          /\ upFile.rows[1][i] = <<H_Name, N1>>
          /\ upFile.rows[1][j] = <<H_DriverName, <<" ">> >>
    /\ \A key \in RequiredKeys \ {K_name} : FieldText(upFile.rows[1], key) # EMPTY
    /\ \E i, j \in DOMAIN upFile.rows[2] :
          /\ i < j
          /\ upFile.rows[2][i] = <<H_Name, N1>>
          /\ upFile.rows[2][j] = <<H_DriverName, N2>>
    /\ Len(drivers) = 1
    /\ drivers[1].name = N2

(***************************************************************************)
(* C19.  The preview shown after a file is selected.                       *)
(***************************************************************************)
ShownRows(n) == IF n < PreviewLimit THEN n ELSE PreviewLimit

\* C19: when the parse started by a file selection completes, the preview
\* holds every row of the sheet, valid or not (as far as the preview
\* reaches), each with its parsed required fields, so that a row missing a
\* required field is in the preview although it is not in the batch.
C19_PreviewShowsAllRows ==
    [][ \A i \in DOMAIN pending :
           (pending' = RemoveAt(pending, i) /\ pending[i].readable) =>
              \A rows \in {pending[i].rows} :
                 /\ showPreview'
                 /\ Len(previewData') = ShownRows(Len(rows))
                 /\ \A r \in DOMAIN previewData' :
                       \A key \in RequiredKeys :
                          DriverField(previewData'[r], key) = FieldText(rows[r], key)
      ]_vars

(***************************************************************************)
(* Tabular export (RosterShareActions): getExportData and the CSV and      *)
(* spreadsheet downloads.  An artifact is the sheet handed to the file     *)
(* writer: one row per record, a row being the cells under their column    *)
(* labels.                                                                 *)
(***************************************************************************)
\* formatPhoneForDisplay
formatPhoneForDisplay(phone) ==
    IF ~Truthy(phone) THEN DASH
    ELSE LET e164 == normalizePhoneToE164(phone)
         IN  IF ~Truthy(e164) THEN phone
             ELSE IF startsWith(e164, PLUS63) /\ Len(e164) = 13
             THEN SubSeq(e164, 1, 3) \o <<" ">> \o SubSeq(e164, 4, 6) \o <<" ">>
                  \o SubSeq(e164, 7, 9) \o <<" ">> \o SubSeq(e164, 10, 13)
             ELSE e164

UNASSIGNED == <<"U","n","a","s","s","i","g","n","e","d">>

exportRow(d) ==
    [label \in ExportLabels |->
        CASE label = "Plate" -> d.plate
          [] label = "Employee ID" -> d.employee_id
          [] label = "Name" -> d.name
          [] label = "Phone" -> formatPhoneForDisplay(d.phone)
          [] label = "Telegram Phone" -> formatPhoneForDisplay(d.telegram_phone)
          [] label = "Captain" -> (IF d.captain = <<"0">> THEN UNASSIGNED ELSE d.captain)
          [] label = "Schedule" -> orElse(d.schedule, EMPTY)
          [] label = "Rest Day" -> orElse(d.rest_day, EMPTY)
          [] label = "Status" -> orElse(d.status, EMPTY)]

\* the `drivers` prop: the filteredDrivers of the Roster page
shareDrivers == filteredDrivers(vDrivers, searchQuery, filters)

driversToUse == IF Len(selectedDrivers) > 0 THEN selectedDrivers ELSE shareDrivers

getExportData == [i \in DOMAIN driversToUse |-> exportRow(driversToUse[i])]

handleDownloadCSV ==
    /\ Len(driversToUse) # 0
    /\ exportArtifact' = [format |-> "csv", rows |-> getExportData]
    /\ exportToast' = [kind |-> "success", format |-> "CSV", count |-> Len(driversToUse)]
    /\ UNCHANGED <<selectedDrivers, exportColumns, showVcfBatchModal, vcfArtifact>>
    /\ UNCHANGED <<adminVars, storeVars, viewVars, phoneVars, headerVars, pageVars>>

handleDownloadXLSX ==
    /\ Len(driversToUse) # 0
    /\ exportArtifact' = [format |-> "xlsx", rows |-> getExportData]
    /\ exportToast' = [kind |-> "success", format |-> "Excel", count |-> Len(driversToUse)]
    /\ UNCHANGED <<selectedDrivers, exportColumns, showVcfBatchModal, vcfArtifact>>
    /\ UNCHANGED <<adminVars, storeVars, viewVars, phoneVars, headerVars, pageVars>>

\* the records of ds at the positions in `at`, in the order of ds
RECURSIVE recordsAt(_, _, _)
recordsAt(ds, at, i) ==
    IF i > Len(ds) THEN <<>>
    ELSE (IF i \in at THEN <<ds[i]>> ELSE <<>>) \o recordsAt(ds, at, i + 1)

\* the column sets a viewer may want: none, one, a few, all
ColumnChoices == { {}, {"Plate"}, {"Plate", "Name", "Phone"}, ExportLabels }

InitRosterExport ==
    /\ roster = {}
    /\ uploads = <<>>
    /\ nextId = 3
    /\ clock = 1
    /\ writes = <<>>
    /\ InitAdmin
    /\ vDrivers \in RosterViews
    /\ filters = NoFilters
    /\ searchQuery = EMPTY
    /\ sortKey = NoKey
    /\ sortDirection = NoDirection
    /\ sortBefore = <<NoKey, NoDirection>>
    /\ InitPhone
    /\ InitHeader
    /\ InitPages
    /\ selectedDrivers \in {recordsAt(vDrivers, at, 1) : at \in SUBSET (DOMAIN vDrivers)}
    /\ exportColumns \in ColumnChoices
    /\ exportArtifact = NoArtifact
    /\ exportToast = NoToast
    /\ showVcfBatchModal = FALSE
    /\ vcfArtifact = NoVcf

NextExport ==
    \/ handleDownloadCSV
    \/ handleDownloadXLSX

SpecExport == InitRosterExport /\ [][NextExport]_vars

(***************************************************************************)
(* C20.  Column selection of the tabular export.                           *)
(***************************************************************************)
\* C20: every row of an exported artifact has cells under selected columns
\* only, and with no column selected no artifact is produced and the only
\* notification is a validation error.
C20_ExportSelectedColumns ==
    /\ \A r \in DOMAIN exportArtifact.rows :
          DOMAIN exportArtifact.rows[r] \subseteq exportColumns
    /\ exportColumns = {} =>
          /\ exportArtifact = NoArtifact
          /\ exportToast.kind \in {"none", "error"}

(***************************************************************************)
(* Contact export (RosterShareActions): generateVCard, the batches of      *)
(* getVcfBatches and the downloads.  The text of a contact file is kept    *)
(* as its sequence of lines, a line as <<fixed part, value>>.              *)
(***************************************************************************)
VCF_BATCH_SIZE == 100

driversWithPhone == SelectSeq(driversToUse, LAMBDA d : Truthy(d.phone))

\* the second TEL line written whenever a telegram phone is present
vCard_AlwaysTelegram(d) ==
    LET phone == normalizePhoneToE164(d.phone)
        telegramPhone == IF Truthy(d.telegram_phone)
                         THEN normalizePhoneToE164(d.telegram_phone) ELSE NULL
    IN  << <<"BEGIN:VCARD", EMPTY>>, <<"VERSION:3.0", EMPTY>>,
           <<"FN:", d.name>>, <<"N:", d.name \o <<";",";",";",";">> >> >>
        \o (IF Truthy(phone) THEN << <<"TEL;TYPE=CELL:", phone>> >> ELSE <<>>)
        \o (IF Truthy(telegramPhone)
            THEN << <<"TEL;TYPE=CELL;PREF=0:", telegramPhone>> >> ELSE <<>>)
        \o << <<"END:VCARD", EMPTY>> >>

\* the card of one record (the map callback of generateVCard)
vCard(d) ==
    LET phone == normalizePhoneToE164(d.phone)
        telegramPhone == IF Truthy(d.telegram_phone)
                         THEN normalizePhoneToE164(d.telegram_phone) ELSE NULL
    IN  << <<"BEGIN:VCARD", EMPTY>>, <<"VERSION:3.0", EMPTY>>,
           <<"FN:", d.name>>, <<"N:", d.name \o <<";",";",";",";">> >> >>
        \o (IF Truthy(phone) THEN << <<"TEL;TYPE=CELL:", phone>> >> ELSE <<>>)
        \o (IF Truthy(telegramPhone) /\ telegramPhone # phone
            THEN << <<"TEL;TYPE=CELL;PREF=0:", telegramPhone>> >> ELSE <<>>)
        \o << <<"END:VCARD", EMPTY>> >>

\* vcards.join('\n'): the lines of the cards, one card after the other
RECURSIVE generateVCard(_)
generateVCard(driversSubset) ==
    IF driversSubset = <<>> THEN <<>>
    ELSE IF Len(driversSubset) = 1
    THEN (IF Truthy(driversSubset[1].phone) THEN vCard(driversSubset[1]) ELSE <<>>)
    ELSE LET half == Len(driversSubset) \div 2
         IN  generateVCard(SubSeq(driversSubset, 1, half))
             \o generateVCard(SubSeq(driversSubset, half + 1, Len(driversSubset)))

Min(a, b) == IF a <= b THEN a ELSE b

\* s.slice(start, end), 0-based, end exclusive
slice(s, start, end) == SubSeq(s, start + 1, Min(end, Len(s)))

\* batches that all span VCF_BATCH_SIZE indices
RECURSIVE vcfBatchesFrom_FullSize(_, _)
vcfBatchesFrom_FullSize(i, total) ==
    IF ~(i < total) THEN <<>>
    ELSE <<[start |-> i, end |-> i + VCF_BATCH_SIZE]>>
         \o vcfBatchesFrom_FullSize(i + VCF_BATCH_SIZE, total)

\* the loop of getVcfBatches from index i on
RECURSIVE vcfBatchesFrom(_, _)
vcfBatchesFrom(i, total) ==
    IF ~(i < total) THEN <<>>
    ELSE <<[start |-> i, end |-> Min(i + VCF_BATCH_SIZE, total)]>>
         \o vcfBatchesFrom(i + VCF_BATCH_SIZE, total)

getVcfBatches == vcfBatchesFrom(0, Len(driversWithPhone))

\* the effect of downloadVcfBatch(startIndex, endIndex) on the last download
downloadVcfBatch(startIndex, endIndex) ==
    LET vcfContent == generateVCard(slice(driversWithPhone, startIndex, endIndex))
    IN  IF vcfContent = <<>> THEN vcfArtifact
        ELSE [start |-> startIndex + 1,
              end |-> Min(endIndex, Len(driversWithPhone)),
              lines |-> vcfContent]

exportOthers == <<adminVars, storeVars, viewVars, phoneVars, headerVars, pageVars>>

handleDownloadVCF ==
    /\ Len(driversWithPhone) # 0
    /\ IF Len(driversWithPhone) <= VCF_BATCH_SIZE
       THEN /\ vcfArtifact' = downloadVcfBatch(0, Len(driversWithPhone))
            /\ UNCHANGED showVcfBatchModal
       ELSE /\ showVcfBatchModal' = TRUE
            /\ UNCHANGED vcfArtifact
    /\ UNCHANGED <<selectedDrivers, exportColumns, exportArtifact, exportToast>>
    /\ UNCHANGED exportOthers

\* a batch button of the dialog
clickVcfBatch(index) ==
    /\ showVcfBatchModal
    /\ index \in DOMAIN getVcfBatches
    /\ vcfArtifact' = downloadVcfBatch(getVcfBatches[index].start, getVcfBatches[index].end)
    /\ UNCHANGED <<selectedDrivers, exportColumns, exportArtifact, exportToast,
                   showVcfBatchModal>>
    /\ UNCHANGED exportOthers

\* the dialog dismissed (onOpenChange)
closeVcfBatchModal ==
    /\ showVcfBatchModal
    /\ showVcfBatchModal' = FALSE
    /\ UNCHANGED <<selectedDrivers, exportColumns, exportArtifact, exportToast,
                   vcfArtifact>>
    /\ UNCHANGED exportOthers

(***************************************************************************)
(* The batch specification: a roster of up to MaxContacts records with a   *)
(* phone, behind NoPhoneRecords records without one, nothing selected.     *)
(***************************************************************************)
MaxContacts == 250

RECURSIVE digitsOf(_)
digitsOf(n) ==
    IF n < 10 THEN <<Digits[n + 1]>>
    ELSE digitsOf(n \div 10) \o <<Digits[(n % 10) + 1]>>

Contact(i, hasPhone) ==
    [ id |-> i, plate |-> <<"P">> \o digitsOf(i), employee_id |-> <<"E">> \o digitsOf(i),
      name |-> <<"D">> \o digitsOf(i),
      phone |-> IF hasPhone THEN <<"0","9","1">> \o digitsOf(10000000 + i) ELSE NULL,
      telegram_phone |-> NULL, captain |-> C1, schedule |-> NULL, rest_day |-> NULL,
      status |-> ACTIVE, created_at |-> 0, updated_at |-> 0 ]

InitVcf ==
    /\ roster = {}
    /\ uploads = <<>>
    /\ nextId = 3
    /\ clock = 1
    /\ writes = <<>>
    /\ InitAdmin
    /\ \E n \in 0..MaxContacts : \E k \in {0, 1} :
          vDrivers = [i \in 1..(k + n) |-> Contact(i, i > k)]
    /\ filters = NoFilters
    /\ searchQuery = EMPTY
    /\ sortKey = NoKey
    /\ sortDirection = NoDirection
    /\ sortBefore = <<NoKey, NoDirection>>
    /\ InitPhone
    /\ InitHeader
    /\ InitExport
    /\ InitPages

NextVcf ==
    \/ handleDownloadVCF
    \/ \E index \in 1..((MaxContacts \div VCF_BATCH_SIZE) + 1) : clickVcfBatch(index)
    \/ closeVcfBatchModal

SpecVcf == InitVcf /\ [][NextVcf]_vars

(***************************************************************************)
(* C21.  Contact batches.                                                  *)
(***************************************************************************)
CardsIn(lines) == Cardinality({l \in DOMAIN lines : lines[l][1] = "BEGIN:VCARD"})

NamesIn(lines) ==
    LET at == SelectSeq([l \in DOMAIN lines |-> l], LAMBDA l : lines[l][1] = "FN:")
    IN  [c \in DOMAIN at |-> lines[at[c]][2]]

\* C21: for n drivers with a phone the batches are ceil(n/100) index ranges,
\* the first starting at 0, each starting where the one before ends, the last
\* ending at n, each of 100 indices except possibly the last; a downloaded
\* artifact holds the cards of one such range in order, never more than 100;
\* with n <= 100 the artifact is the single range [0, n) and no batch dialog
\* opens.
C21_VcfBatches ==
    \A with \in {driversWithPhone} : \A n \in {Len(with)} : \A b \in {getVcfBatches} :
       /\ Len(b) = (n + 99) \div 100
       /\ \A k \in DOMAIN b :
             /\ b[k].start = (IF k = 1 THEN 0 ELSE b[k - 1].end)
             /\ b[k].start < b[k].end
             /\ k < Len(b) => b[k].end - b[k].start = 100
             /\ k = Len(b) => b[k].end = n /\ b[k].end - b[k].start <= 100
       /\ \A idx \in 0..(n - 1) :
             Cardinality({k \in DOMAIN b : b[k].start <= idx /\ idx < b[k].end}) = 1
       /\ vcfArtifact # NoVcf =>
             /\ CardsIn(vcfArtifact.lines) <= 100
             /\ \E k \in DOMAIN b :
                   /\ vcfArtifact.start = b[k].start + 1
                   /\ vcfArtifact.end = b[k].end
                   /\ NamesIn(vcfArtifact.lines)
                        = [c \in 1..(b[k].end - b[k].start) |-> with[b[k].start + c].name]
       /\ n <= 100 => ~showVcfBatchModal

\* 250 drivers with a phone: the third batch, of 50 cards, has been downloaded
C21_Witness ==
    /\ Len(driversWithPhone) = 250
    /\ Len(getVcfBatches) = 3
    /\ vcfArtifact.start = 201
    /\ vcfArtifact.end = 250
    /\ CardsIn(vcfArtifact.lines) = 50

(***************************************************************************)
(* The card specification: small rosters of records with and without a     *)
(* phone, with a telegram phone that is absent, equal to the phone, the    *)
(* same number written differently, or another number.                     *)
(***************************************************************************)
Mobile1 == <<"0">> \o Sub1
Mobile1Intl == <<"+","6","3"," ">> \o Sub4
Mobile2 == <<"0">> \o Sub2

CardRecord(i, phone, telegram) ==
    [ id |-> i, plate |-> <<"P">> \o digitsOf(i), employee_id |-> <<"E">> \o digitsOf(i),
      name |-> <<"D">> \o digitsOf(i), phone |-> phone, telegram_phone |-> telegram,
      captain |-> C1, schedule |-> NULL, rest_day |-> NULL, status |-> ACTIVE,
      created_at |-> 0, updated_at |-> 0 ]

CardRecords ==
    { CardRecord(1, Mobile1, Mobile1Intl), CardRecord(2, Mobile1, Mobile2),
      CardRecord(3, NULL, Mobile2), CardRecord(4, Mobile2, NULL),
      CardRecord(5, EMPTY, EMPTY), CardRecord(6, Mobile1Intl, Mobile1Intl) }

InitCards ==
    /\ roster = {}
    /\ uploads = <<>>
    /\ nextId = 3
    /\ clock = 1
    /\ writes = <<>>
    /\ InitAdmin
    /\ vDrivers \in {ds \in SeqsUpTo(CardRecords, MaxDrivers) :
                        \A i, j \in DOMAIN ds : i # j => ds[i].id # ds[j].id}
    /\ filters = NoFilters
    /\ searchQuery = EMPTY
    /\ sortKey = NoKey
    /\ sortDirection = NoDirection
    /\ sortBefore = <<NoKey, NoDirection>>
    /\ InitPhone
    /\ InitHeader
    /\ InitPages
    /\ selectedDrivers \in {recordsAt(vDrivers, at, 1) : at \in SUBSET (DOMAIN vDrivers)}
    /\ exportColumns = ExportLabels
    /\ exportArtifact = NoArtifact
    /\ exportToast = NoToast
    /\ showVcfBatchModal = FALSE
    /\ vcfArtifact = NoVcf

NextCards == handleDownloadVCF

SpecCards == InitCards /\ [][NextCards]_vars

(***************************************************************************)
(* C22.  Contact cards.                                                    *)
(***************************************************************************)
HasPhone(d) == d.phone # NULL /\ d.phone # EMPTY

LinesAt(lines, tag) == SelectSeq([l \in DOMAIN lines |-> l], LAMBDA l : lines[l][1] = tag)

\* the values of the lines of `lines` with fixed part `tag`, in order
ValuesOf(lines, tag) ==
    LET at == LinesAt(lines, tag)
    IN  [c \in DOMAIN at |-> lines[at[c]][2]]

\* C22: a downloaded contact file holds one card per record of the export
\* source that has a phone, in the order of the source, and none for a record
\* without one; a card carries the record's name and the canonical form of its
\* phone, and a second TEL line, with the canonical telegram phone, iff the
\* telegram phone is present and its canonical form differs from the phone's.
C22_OneCardPerPhone ==
    vcfArtifact # NoVcf =>
       \A with \in {SelectSeq(driversToUse, HasPhone)} :
       \A lines \in {vcfArtifact.lines} :
       \A begins \in {LinesAt(lines, "BEGIN:VCARD")} :
       \A ends \in {LinesAt(lines, "END:VCARD")} :
          /\ Len(begins) = Len(with)
          /\ Len(ends) = Len(with)
          /\ \A c \in DOMAIN with :
                \A card \in {SubSeq(lines, begins[c], ends[c])} :
                   /\ c < Len(with) => ends[c] + 1 = begins[c + 1]
                   /\ ValuesOf(card, "FN:") = <<with[c].name>>
                   /\ ValuesOf(card, "TEL;TYPE=CELL:") = <<CanonicalForm(with[c].phone)>>
                   /\ ValuesOf(card, "TEL;TYPE=CELL;PREF=0:")
                        = (IF /\ with[c].telegram_phone \notin {NULL, EMPTY}
                              /\ CanonicalForm(with[c].telegram_phone)
                                    # CanonicalForm(with[c].phone)
                           THEN <<CanonicalForm(with[c].telegram_phone)>>
                           ELSE <<>>)

\* a record whose telegram phone is its phone written differently, then one
\* with another telegram number: two cards, only the second with two TEL lines
C22_Witness ==
    /\ Len(vDrivers) = 2
    /\ vDrivers[1] = CardRecord(1, Mobile1, Mobile1Intl)
    /\ vDrivers[2] = CardRecord(2, Mobile1, Mobile2)
    /\ selectedDrivers = <<>>
    /\ ValuesOf(vcfArtifact.lines, "FN:") = <<vDrivers[1].name, vDrivers[2].name>>
    /\ ValuesOf(vcfArtifact.lines, "TEL;TYPE=CELL;PREF=0:") = << <<"+","6","3">> \o Sub2 >>

(***************************************************************************)
(* The selection specification: the administrator picks files one after    *)
(* the other; a parse started by an earlier pick may still be running, and *)
(* the reads finish in any order.                                          *)
(***************************************************************************)
SelectFiles == {f \in Files : Len(f.rows) <= 1}

InitSelect ==
    /\ roster = {}
    /\ uploads = <<>>
    /\ nextId = 3
    /\ clock = 1
    /\ writes = <<>>
    /\ InitAdmin
    /\ InitView

NextSelect ==
    \/ \E f \in SelectFiles : Len(pending) < MaxParses /\ fileSelected(f)
    \/ \E i \in 1..MaxParses : previewParsed(i)

SpecSelect == InitSelect /\ [][NextSelect]_vars

(***************************************************************************)
(* C23.  A new selection supersedes the parse of the previous one.         *)
(***************************************************************************)
PreviewOf(file) ==
    SubSeq(parseFile(file), 1, Min(Len(parseFile(file)), PreviewLimit))

\* C23: once every parse started by a selection has finished, a preview that
\* is shown is the parse of the file that is selected.
C23_PreviewOfSelectedFile ==
    (pending = <<>> /\ showPreview) =>
        /\ ~parseRejects(selectedFile)
        /\ previewData = PreviewOf(selectedFile)

(***************************************************************************)
(* The edit dialog and the delete button of the roster table.              *)
(***************************************************************************)
RequiredFields == {"plate", "employee_id", "name", "captain"}

\* what the administrator types into a field: nothing, blanks, a text
FieldTexts == {EMPTY, BLANK, <<"Z">>}

orNull(v) == IF Truthy(v) THEN v ELSE NULL

\* the UPDATE of updateMutation on the row it selects; the BEFORE UPDATE
\* trigger refreshes updated_at
editRow(old, data, now) ==
    [ old EXCEPT !.plate = data.plate, !.employee_id = data.employee_id,
                 !.name = data.name, !.phone = orNull(data.phone),
                 !.telegram_phone = orNull(data.telegram_phone),
                 !.captain = data.captain, !.schedule = orNull(data.schedule),
                 !.rest_day = orNull(data.rest_day),
                 !.status = IF Truthy(data.status) THEN data.status ELSE ACTIVE,
                 !.updated_at = now ]

editUnchanged ==
    UNCHANGED <<adminVars, viewVars, phoneVars, headerVars, exportVars, pagesButEdit>>

\* setEditingDriver(driver); the effect copies the driver into formData
openEdit(driver) ==
    /\ formData = NoForm
    /\ edits < MaxEdits
    /\ formData' = driver
    /\ formChanges' = 0
    /\ edits' = edits + 1
    /\ UNCHANGED <<updateRequest, editToast>>
    /\ UNCHANGED storeVars
    /\ editUnchanged

\* onChange of the input of a required field
changeField(field, value) ==
    /\ formData # NoForm
    /\ formChanges < MaxChanges
    /\ formData' = [formData EXCEPT ![field] = value]
    /\ formChanges' = formChanges + 1
    /\ UNCHANGED <<updateRequest, editToast, edits>>
    /\ UNCHANGED storeVars
    /\ editUnchanged

\* handleSubmit; the Save button is disabled while the mutation is pending
handleSubmit ==
    /\ formData # NoForm
    /\ updateRequest = NoForm
    /\ IF \/ ~Truthy(formData.plate) \/ ~Truthy(formData.employee_id)
          \/ ~Truthy(formData.name) \/ ~Truthy(formData.captain)
       THEN /\ editToast' = "Missing required fields"
            /\ UNCHANGED updateRequest
       ELSE /\ updateRequest' = formData
            /\ UNCHANGED editToast
    /\ UNCHANGED <<formData, formChanges, edits>>
    /\ UNCHANGED storeVars
    /\ editUnchanged

\* the Cancel button and the close control of the dialog
cancelEdit ==
    /\ formData # NoForm
    /\ formData' = NoForm
    /\ formChanges' = 0
    /\ UNCHANGED <<updateRequest, editToast, edits>>
    /\ UNCHANGED storeVars
    /\ editUnchanged

\* the store answers the update: plate is UNIQUE, so a plate of another row
\* is refused; onSuccess closes the dialog, onError leaves it open
updateAnswered(accepted) ==
    /\ updateRequest # NoForm
    /\ LET data == updateRequest
           hit == {r \in roster : r.id = data.id}
           taken == \E r \in roster : r.id # data.id /\ r.plate = data.plate
       IN  IF accepted /\ ~(hit # {} /\ taken)
           THEN /\ roster' = (roster \ hit) \cup {editRow(r, data, clock) : r \in hit}
                /\ clock' = clock + 1
                /\ editToast' = "Driver updated successfully"
                /\ formData' = NoForm
                /\ formChanges' = 0
           ELSE /\ editToast' = "Update failed"
                /\ UNCHANGED <<roster, clock, formData, formChanges>>
    /\ updateRequest' = NoForm
    /\ UNCHANGED edits
    /\ UNCHANGED <<uploads, nextId, writes>>
    /\ editUnchanged

\* handleDelete with the answer of the store
handleDelete(id, accepted) ==
    /\ \E r \in roster : r.id = id
    /\ IF accepted
       THEN /\ roster' = {r \in roster : r.id # id}
            /\ editToast' = "Driver deleted successfully"
       ELSE /\ editToast' = "Failed to delete driver"
            /\ UNCHANGED roster
    /\ UNCHANGED <<formData, formChanges, updateRequest, edits>>
    /\ UNCHANGED <<uploads, nextId, clock, writes>>
    /\ editUnchanged

(***************************************************************************)
(* The edit specification: uploads of small sheets, edits and deletes.     *)
(* The administrator edits or deletes while no file is selected, and       *)
(* selects a file while the dialog is closed.                              *)
(***************************************************************************)
EditFiles == {f \in SelectFiles : f.readable /\ f.rows \in {<<>>, <<RowA>>}}

adminIdle == ~isUploading /\ selectedFile = NoFile /\ pending = <<>>
editIdle == formData = NoForm /\ updateRequest = NoForm

InitRosterEdit ==
    /\ roster \in InitRosters
    /\ uploads = <<>>
    /\ nextId = 3
    /\ clock = 1
    /\ writes = <<>>
    /\ InitAdmin
    /\ InitView

NextEdit ==
    \/ \E f \in EditFiles : ~isUploading /\ editIdle /\ handleFileSelect(f)
    \/ \E i \in 1..MaxPending : previewParsed(i)
    \/ \E t \in {"upsert", "replace"} : setUploadType(t)
    \/ uploadStart
    \/ uploadParsed
    \/ \E accepted \in BOOLEAN : uploadDeleted(accepted)
    \/ \E accepted \in BOOLEAN : uploadUpserted(accepted)
    \/ \E accepted \in BOOLEAN : uploadLogged(accepted)
    \/ \E driver \in roster : adminIdle /\ openEdit(driver)
    \/ \E field \in RequiredFields, value \in FieldTexts : changeField(field, value)
    \/ handleSubmit
    \/ cancelEdit
    \/ \E accepted \in BOOLEAN : updateAnswered(accepted)
    \/ \E r \in roster, accepted \in BOOLEAN :
          adminIdle /\ editIdle /\ handleDelete(r.id, accepted)

SpecEdit == InitRosterEdit /\ [][NextEdit]_vars

(***************************************************************************)
(* C24.  Required fields of stored records.                                *)
(***************************************************************************)
Filled(d) ==
    \A field \in RequiredFields :
        d[field] \notin {NULL, UNDEF} /\ trim(d[field]) # EMPTY

\* C24: every stored record has a non-empty trimmed plate, employee_id, name
\* and captain, and the edit dialog issues no update for a form in which one
\* of the four is empty or only blanks.
C24_RequiredFieldsFilled ==
    /\ \A r \in roster : Filled(r)
    /\ updateRequest # NoForm => Filled(updateRequest)

(***************************************************************************)
(* useColumnOrder.  A column definition is identified by its key; the      *)
(* stored entry is absent, or a text that JSON.parse rejects, or the JSON  *)
(* text of a number, an object, a string or an array.                      *)
(***************************************************************************)
Contains(s, x) == \E i \in DOMAIN s : s[i] = x

\* the first loop of the effect: the stored keys that name a column
storedColumns(storedKeys) ==
    SelectSeq(storedKeys, LAMBDA key : Contains(DEFAULT_COLUMNS, key))

\* the second loop of the effect: the columns not yet in `reordered`
missingColumns(reordered) ==
    SelectSeq(DEFAULT_COLUMNS, LAMBDA key : ~Contains(reordered, key))

\* the body of the effect for the text `stored`: the new columns, or the
\* columns left as they are when the entry is falsy or the body throws
loadedColumns(stored, current) ==
    CASE stored.kind \in {"absent", "empty"} -> current
      [] stored.kind = "corrupt" -> current                \* JSON.parse throws
      [] stored.kind \in {"number", "object", "null"} -> current  \* not iterable
      [] stored.kind \in {"string", "array"} ->
            LET reordered == storedColumns(stored.items)
            IN  reordered \o missingColumns(reordered)

columnOthers ==
    <<adminVars, storeVars, viewVars, phoneVars, headerVars, exportVars, pagesButColumns>>

\* the effect that runs once on mount
loadOrder ==
    /\ ~columnsLoaded
    /\ columnsLoaded' = TRUE
    /\ columns' = loadedColumns(storedOrder, columns)
    /\ UNCHANGED <<storedOrder, moves>>
    /\ UNCHANGED columnOthers

\* newColumns.splice(fromIndex, 1); newColumns.splice(toIndex, 0, removed),
\* with indices counted from 1
splice(s, fromIndex, toIndex) ==
    LET without == SubSeq(s, 1, fromIndex - 1) \o SubSeq(s, fromIndex + 1, Len(s))
    IN  SubSeq(without, 1, toIndex - 1) \o <<s[fromIndex]>>
        \o SubSeq(without, toIndex, Len(without))

\* moveColumn with the indices of two headers, and its saveOrder
moveColumn(fromIndex, toIndex) ==
    /\ columnsLoaded
    /\ moves < MaxMoves
    /\ fromIndex \in DOMAIN columns
    /\ toIndex \in DOMAIN columns
    /\ columns' = splice(columns, fromIndex, toIndex)
    /\ storedOrder' = [kind |-> "array", items |-> columns']
    /\ moves' = moves + 1
    /\ UNCHANGED columnsLoaded
    /\ UNCHANGED columnOthers

resetOrder ==
    /\ columnsLoaded
    /\ columns' = DEFAULT_COLUMNS
    /\ storedOrder' = NoStoredOrder
    /\ UNCHANGED <<columnsLoaded, moves>>
    /\ UNCHANGED columnOthers

(***************************************************************************)
(* The column specification: the page mounts over a stored entry of any    *)
(* kind; the viewer then drags at most MaxMoves columns and may reset.     *)
(***************************************************************************)
StoredKeys == {"status", "plate", "bogus"}

StoredEntries ==
    {[kind |-> k, items |-> <<>>] :
        k \in {"absent", "empty", "corrupt", "number", "object", "null"}}
    \cup {[kind |-> "string", items |-> <<"p", "l">>]}
    \cup {[kind |-> "array", items |-> ks] : ks \in SeqsUpTo(StoredKeys, MaxStored)}
    \cup {[kind |-> "array", items |-> Reverse(DEFAULT_COLUMNS)]}

InitColumnOrder ==
    /\ roster = {}
    /\ uploads = <<>>
    /\ nextId = 3
    /\ clock = 1
    /\ writes = <<>>
    /\ InitAdmin
    /\ vDrivers = <<>>
    /\ filters = NoFilters
    /\ searchQuery = EMPTY
    /\ sortKey = NoKey
    /\ sortDirection = NoDirection
    /\ sortBefore = <<NoKey, NoDirection>>
    /\ InitPhone
    /\ InitHeader
    /\ InitExport
    /\ InitEdit
    /\ columns = DEFAULT_COLUMNS
    /\ storedOrder \in StoredEntries
    /\ columnsLoaded = FALSE
    /\ moves = 0
    /\ InitTable
    /\ InitViewer
    /\ InitBox

NextColumns ==
    \/ loadOrder
    \/ \E fromIndex, toIndex \in DOMAIN DEFAULT_COLUMNS : moveColumn(fromIndex, toIndex)
    \/ resetOrder

SpecColumns == InitColumnOrder /\ [][NextColumns]_vars

(***************************************************************************)
(* C25.  The column order is a permutation of the default columns.         *)
(***************************************************************************)
IsPermutation(s, t) ==
    /\ Len(s) = Len(t)
    /\ \A x \in {t[i] : i \in DOMAIN t} :
          Cardinality({i \in DOMAIN s : s[i] = x}) = 1

\* C25: once the stored order is loaded, and after every moveColumn and
\* resetOrder, the columns are a permutation of the nine default columns; an
\* absent or unparsable entry gives the default order; columns the entry does
\* not name follow the named ones in default order.
C25_ColumnsArePermutation ==
    columnsLoaded =>
        /\ IsPermutation(columns, DEFAULT_COLUMNS)
        /\ (moves = 0 /\ storedOrder.kind \in {"absent", "empty", "corrupt"})
              => columns = DEFAULT_COLUMNS

(***************************************************************************)
(* The share specification: the viewer filters and sorts the table and     *)
(* exports with no row selected.                                           *)
(***************************************************************************)
\* handlePrint; window.open gives a window or, with popups blocked, null
handlePrint(opened) ==
    /\ Len(driversToUse) # 0
    /\ IF opened
       THEN /\ exportArtifact' = [format |-> "print", rows |-> getExportData]
            /\ UNCHANGED exportToast
       ELSE /\ exportToast' = [kind |-> "error", format |-> "print", count |-> 0]
            /\ UNCHANGED exportArtifact
    /\ UNCHANGED <<selectedDrivers, exportColumns, showVcfBatchModal, vcfArtifact>>
    /\ UNCHANGED exportOthers

\* the rosters of MaxDrivers records that begin with the record of plate ABC10
ShareViews == {ds \in RosterViews : Len(ds) = MaxDrivers /\ ds[1] = V4}

InitShare ==
    /\ roster = {}
    /\ uploads = <<>>
    /\ nextId = 3
    /\ clock = 1
    /\ writes = <<>>
    /\ InitAdmin
    /\ vDrivers \in ShareViews
    /\ filters = NoFilters
    /\ searchQuery = EMPTY
    /\ sortKey = NoKey
    /\ sortDirection = NoDirection
    /\ sortBefore = <<NoKey, NoDirection>>
    /\ InitTools

NextShare ==
    \/ \E key \in FilterKeys : \E value \in filterOptions(vDrivers, key) :
          handleFilterChange(key, value)
    \/ \E key \in SortableKeys : handleSort(key)
    \/ handleDownloadCSV
    \/ handleDownloadXLSX
    \/ \E opened \in BOOLEAN : handlePrint(opened)

SpecShare == InitShare /\ [][NextShare]_vars

(***************************************************************************)
(* C26.  The export follows the table.                                     *)
(***************************************************************************)
\* the rows of the table: sortedDrivers of RosterTable
displayedDrivers ==
    sortedDrivers(filteredDrivers(vDrivers, searchQuery, filters), sortKey, sortDirection)

\* C26: with no row selected, the rows of a CSV, XLSX or print export are the
\* records the table displays, in the order it displays them.
C26_ExportFollowsTable ==
    [][(selectedDrivers = <<>> /\ exportArtifact' # exportArtifact)
          => exportArtifact'.rows
                = [i \in DOMAIN displayedDrivers |-> exportRow(displayedDrivers[i])]]_vars

(***************************************************************************)
(* Row selection in the administrator's table.                             *)
(***************************************************************************)
tableFiltered == filteredDrivers(vDrivers, searchQuery, filters)

tableUnchanged ==
    UNCHANGED <<adminVars, phoneVars, headerVars, pagesButTable,
                exportColumns, exportArtifact, exportToast, showVcfBatchModal, vcfArtifact>>

\* the checkbox of the header
toggleSelectAll(checked) ==
    /\ selectedIds' = IF checked
                      THEN {tableFiltered[i].id : i \in DOMAIN tableFiltered} ELSE {}
    /\ selectedDrivers' = IF checked THEN tableFiltered ELSE <<>>
    /\ UNCHANGED storeVars
    /\ UNCHANGED viewVars
    /\ tableUnchanged

\* the checkbox of a row
toggleSelect(id, checked) ==
    /\ LET newSet == IF checked THEN selectedIds \cup {id} ELSE selectedIds \ {id}
       IN  /\ selectedIds' = newSet
           /\ selectedDrivers' = SelectSeq(tableFiltered, LAMBDA d : d.id \in newSet)
    /\ UNCHANGED storeVars
    /\ UNCHANGED viewVars
    /\ tableUnchanged

\* the Clear Selection button, shown while rows are selected
clearSelection ==
    /\ selectedIds # {}
    /\ selectedIds' = {}
    /\ UNCHANGED selectedDrivers
    /\ UNCHANGED storeVars
    /\ UNCHANGED viewVars
    /\ tableUnchanged

\* handleBulkDelete with the answer of the store; on success the roster query
\* is invalidated and the table receives the remaining drivers
handleBulkDelete(accepted) ==
    /\ selectedIds # {}
    /\ IF accepted
       THEN /\ roster' = {r \in roster : r.id \notin selectedIds}
            /\ vDrivers' = SelectSeq(vDrivers, LAMBDA d : d.id \notin selectedIds)
            /\ selectedIds' = {}
       ELSE UNCHANGED <<roster, vDrivers, selectedIds>>
    /\ UNCHANGED selectedDrivers
    /\ UNCHANGED <<uploads, nextId, clock, writes>>
    /\ UNCHANGED <<filters, searchQuery, sortKey, sortDirection, sortBefore>>
    /\ tableUnchanged

(***************************************************************************)
(* The table specification: the administrator selects rows, filters,       *)
(* searches, clears the selection and deletes the selected rows.           *)
(***************************************************************************)
InitRosterTable ==
    /\ vDrivers \in RosterViews
    /\ roster = {vDrivers[i] : i \in DOMAIN vDrivers}
    /\ uploads = <<>>
    /\ nextId = 5
    /\ clock = 1
    /\ writes = <<>>
    /\ InitAdmin
    /\ filters = NoFilters
    /\ searchQuery = EMPTY
    /\ sortKey = NoKey
    /\ sortDirection = NoDirection
    /\ sortBefore = <<NoKey, NoDirection>>
    /\ InitTools

NextTable ==
    \/ \E checked \in BOOLEAN : toggleSelectAll(checked)
    \/ \E i \in DOMAIN tableFiltered, checked \in BOOLEAN :
          toggleSelect(tableFiltered[i].id, checked)
    \/ clearSelection
    \/ \E accepted \in BOOLEAN : handleBulkDelete(accepted)
    \/ \E key \in FilterKeys : \E value \in filterOptions(vDrivers, key) :
          handleFilterChange(key, value)
    \/ \E q \in Queries : setSearchQuery(q)

SpecTable == InitRosterTable /\ [][NextTable]_vars

(***************************************************************************)
(* C27.  The page's selection and the table's selection.                   *)
(***************************************************************************)
\* C27: the selectedDrivers of the Roster page are the drivers whose ids are
\* in the selectedIds of the table.
C27_SelectionAgrees ==
    {selectedDrivers[i] : i \in DOMAIN selectedDrivers}
        = {d \in {vDrivers[i] : i \in DOMAIN vDrivers} : d.id \in selectedIds}

(***************************************************************************)
(* The upload specification with its scheduling: the FileReader of a       *)
(* started upload finishes, and the store answers every request, with a    *)
(* result or with an error.                                                *)
(***************************************************************************)
\* the FileReader of handleUpload fires onload or onerror: the steps of the
\* specification that leave pc = "parse" are the uploadParsed steps
parseCompletes == pc = "parse" /\ pc' \in {"idle", "delete", "upsert"}

\* each of these steps changes pc, the position of handleUpload
UploadFairness ==
    /\ WF_pc(parseCompletes)
    /\ WF_pc(\E accepted \in BOOLEAN : uploadDeleted(accepted))
    /\ WF_pc(\E accepted \in BOOLEAN : uploadUpserted(accepted))
    /\ WF_pc(\E accepted \in BOOLEAN : uploadLogged(accepted))

\* the upload specification over the sheets of at most one row
NextUpload ==
    \/ \E f \in SelectFiles : ~isUploading /\ handleFileSelect(f)
    \/ \E i \in 1..MaxPending : previewParsed(i)
    \/ \E t \in {"upsert", "replace"} : setUploadType(t)
    \/ uploadStart
    \/ uploadParsed
    \/ \E accepted \in BOOLEAN : uploadDeleted(accepted)
    \/ \E accepted \in BOOLEAN : uploadUpserted(accepted)
    \/ \E accepted \in BOOLEAN : uploadLogged(accepted)

FairSpec == Init /\ [][NextUpload]_vars /\ UploadFairness

(***************************************************************************)
(* C28.  The life cycle of an upload.                                      *)
(***************************************************************************)
\* an upload starts only while isUploading is false
StartsWhenIdle == attempts' # attempts => (~isUploading /\ isUploading')

\* the exit after the upsert succeeded clears the selected file and the
\* preview; every other exit keeps them
ExitKeepsOrClears ==
    (isUploading /\ ~isUploading') =>
        IF pc = "audit"
        THEN selectedFile' = NoFile /\ previewData' = <<>> /\ showPreview' = FALSE
        ELSE UNCHANGED <<selectedFile, previewData, showPreview>>

\* C28: an upload starts only while isUploading is false, so at most one is in
\* flight (isUploading holds exactly while a handleUpload call is between its
\* start and its exit); every started upload sets isUploading to false again;
\* the exit clears the selected file and the preview on success and keeps
\* them on failure.
C28_UploadLifeCycle ==
    /\ [](isUploading <=> pc # "idle")
    /\ [][StartsWhenIdle /\ ExitKeepsOrClears]_vars
    /\ (isUploading ~> ~isUploading)

\* a successful upload followed by a failed one whose file is still selected
C28_Witness ==
    /\ attempts = 2
    /\ Len(uploads) = 1
    /\ ~isUploading
    /\ toast = "Upload failed"
    /\ selectedFile # NoFile

(***************************************************************************)
(* What the table shows.  A cell is its text and the target of its link,   *)
(* NULL when it has none.                                                  *)
(***************************************************************************)
TEL == <<"t","e","l",":">>
TME == <<"h","t","t","p","s",":","/","/","t",".","m","e","/">>

getTelLink(phone) ==
    LET e164 == normalizePhoneToE164(phone)
    IN  IF Truthy(e164) THEN TEL \o e164 ELSE NULL

getTelegramLink(telegramPhone, fallbackPhone) ==
    LET phone == IF Truthy(telegramPhone) THEN telegramPhone ELSE fallbackPhone
        e164 == normalizePhoneToE164(phone)
    IN  IF Truthy(e164) THEN TME \o e164 ELSE NULL

Cell(text, href) == [text |-> text, href |-> href]

orDash(v) == IF Truthy(v) THEN v ELSE DASH

\* href={telLink || '#'}
orHash(link) == IF Truthy(link) THEN link ELSE <<"#">>

\* the label of the badge
getStatusBadge(status) ==
    LET lower == IF status = NULL THEN UNDEF ELSE toLowerCase(status)
    IN  CASE lower = ACTIVE -> <<"A","c","t","i","v","e">>
          [] lower = INACTIVE -> <<"I","n","a","c","t","i","v","e">>
          [] lower = <<"s","u","s","p","e","n","d","e","d">>
                -> <<"S","u","s","p","e","n","d","e","d">>
          [] OTHER -> orDash(status)

renderCellContent(driver, columnKey, admin) ==
    CASE columnKey = "plate" -> Cell(driver.plate, NULL)
      [] columnKey = "employee_id" -> Cell(driver.employee_id, NULL)
      [] columnKey = "name" -> Cell(driver.name, NULL)
      [] columnKey = "phone" ->
            IF ~Truthy(driver.phone) THEN Cell(DASH, NULL)
            ELSE IF ~admin THEN Cell(maskPhoneNumber(driver.phone), NULL)
            ELSE Cell(formatPhoneForDisplay(driver.phone),
                      orHash(getTelLink(driver.phone)))
      [] columnKey = "telegram" ->
            LET hasPhone == IF Truthy(driver.telegram_phone)
                            THEN driver.telegram_phone ELSE driver.phone
            IN  IF ~admin
                THEN (IF ~Truthy(hasPhone) THEN Cell(DASH, NULL)
                      ELSE Cell(maskPhoneNumber(hasPhone), NULL))
                ELSE (IF ~Truthy(getTelegramLink(driver.telegram_phone, driver.phone))
                      THEN Cell(DASH, NULL)
                      ELSE Cell(<<"T","e","l","e","g","r","a","m">>,
                                getTelegramLink(driver.telegram_phone, driver.phone)))
      [] columnKey = "captain" -> Cell(driver.captain, NULL)
      [] columnKey = "schedule" -> Cell(orDash(driver.schedule), NULL)
      [] columnKey = "rest_day" -> Cell(orDash(driver.rest_day), NULL)
      [] columnKey = "status" -> Cell(getStatusBadge(driver.status), NULL)

\* the rows of the table over the roster ds
tableRows(ds) ==
    LET shown == sortedDrivers(filteredDrivers(ds, searchQuery, filters),
                               sortKey, sortDirection)
    IN  [i \in DOMAIN shown |->
            [k \in DOMAIN DEFAULT_COLUMNS |->
                renderCellContent(shown[i], DEFAULT_COLUMNS[k], isAdmin)]]

(***************************************************************************)
(* The viewer specification: a viewer who is not an administrator looks at *)
(* a roster; the twin roster differs from it only in digits of phone       *)
(* numbers that the mask hides.  Both tables get the same search and the   *)
(* same filters.                                                           *)
(***************************************************************************)
\* a record of the roster with its phone numbers replaced
withPhones(d, phone, telegram) == [d EXCEPT !.phone = phone, !.telegram_phone = telegram]

ViewerPhones == {NULL, Mobile1, Mobile2}

ViewerRosters ==
    { << withPhones(V1, p1, NULL), withPhones(V2, NULL, t2) >> :
         p1 \in ViewerPhones, t2 \in ViewerPhones }

\* the same records, each phone number with the same masked form
SameButHidden(ds, es) ==
    /\ Len(ds) = Len(es)
    /\ \A i \in DOMAIN ds :
          /\ es[i] = withPhones(ds[i], es[i].phone, es[i].telegram_phone)
          /\ maskPhoneNumber(ds[i].phone) = maskPhoneNumber(es[i].phone)
          /\ maskPhoneNumber(ds[i].telegram_phone) = maskPhoneNumber(es[i].telegram_phone)

ViewerQueries == { EMPTY, <<"1","8","1">>, <<"4","5","6","7">>, <<"a","n">>, <<"z">> }

InitViewerRoster ==
    /\ roster = {}
    /\ uploads = <<>>
    /\ nextId = 3
    /\ clock = 1
    /\ writes = <<>>
    /\ InitAdmin
    /\ vDrivers \in ViewerRosters
    /\ twinDrivers \in {es \in ViewerRosters : SameButHidden(vDrivers, es)}
    /\ isAdmin \in BOOLEAN
    /\ filters = NoFilters
    /\ searchQuery = EMPTY
    /\ sortKey = NoKey
    /\ sortDirection = NoDirection
    /\ sortBefore = <<NoKey, NoDirection>>
    /\ InitPhone
    /\ InitHeader
    /\ InitExport
    /\ InitEdit
    /\ InitColumns
    /\ InitTable
    /\ InitBox

NextViewer ==
    \/ \E key \in FilterKeys : \E value \in filterOptions(vDrivers, key) :
          handleFilterChange(key, value)
    \/ \E q \in ViewerQueries : setSearchQuery(q)

SpecViewer == InitViewerRoster /\ [][NextViewer]_vars

(***************************************************************************)
(* C29.  The table of a viewer who is not an administrator.                *)
(***************************************************************************)
\* C29: for a viewer who is not an administrator, two rosters that differ
\* only in hidden digits show the same rows and cells under every search
\* and filter, and no cell carries a link.
C29_HiddenDigitsStayHidden ==
    ~isAdmin =>
        /\ \A rows \in {tableRows(vDrivers)} :
              /\ rows = tableRows(twinDrivers)
              /\ \A i \in DOMAIN rows : \A k \in DOMAIN rows[i] : rows[i][k].href = NULL

(***************************************************************************)
(* FileUpload, the file picker of the Admin page.  A candidate file has,   *)
(* besides its sheet, the last dot-separated segment of its name and its   *)
(* size in bytes.                                                          *)
(***************************************************************************)
maxSize == 10

validExtensions == { <<".","c","s","v">>, <<".","x","l","s","x">>, <<".","x","l","s">> }

\* '.' + file.name.split('.').pop()?.toLowerCase()
fileExtension(file) == <<".">> \o toLowerCase(file.lastSegment)

\* validateFile: the error it sets, "none" when the file passes
validateFile(file) ==
    IF fileExtension(file) \notin validExtensions THEN "extension"
    ELSE IF file.size > maxSize * 1024 * 1024 THEN "size"
    ELSE "none"

boxUnchanged ==
    UNCHANGED <<storeVars, viewVars, phoneVars, headerVars, exportVars, pagesButBox>>

\* handleFile, from a drop on the drop zone or from the file input, with the
\* onFileSelect it calls; the drop zone is rendered while no file is shown
handleFile(file) ==
    /\ boxFile = NoFile
    /\ boxError' = validateFile(file)
    /\ IF validateFile(file) = "none"
       THEN /\ Len(pending) < MaxPending
            /\ boxFile' = file
            /\ setSelectedFile(file)
       ELSE /\ UNCHANGED boxFile
            /\ UNCHANGED adminVars
    /\ boxUnchanged

\* the X button of the card that shows the file
clearFile ==
    /\ boxFile # NoFile
    /\ boxFile' = NoFile
    /\ boxError' = "none"
    /\ UNCHANGED adminVars
    /\ boxUnchanged

(***************************************************************************)
(* The picker specification: the administrator picks files through         *)
(* FileUpload, clears the picker, and uploads.                             *)
(***************************************************************************)
Sheet(name, lastSegment, size, rows) ==
    [name |-> name, readable |-> TRUE, rows |-> rows,
     lastSegment |-> lastSegment, size |-> size]

BoxFiles ==
    { Sheet("a.xlsx", <<"x","l","s","x">>, 2048, <<RowA>>),
      Sheet("B.CSV", <<"C","S","V">>, 10 * 1024 * 1024, <<RowD>>),
      Sheet("notes.txt", <<"t","x","t">>, 2048, <<RowA>>),
      Sheet("big.xls", <<"x","l","s">>, 10 * 1024 * 1024 + 1, <<RowB>>) }

NextBox ==
    \/ \E f \in BoxFiles : ~isUploading /\ handleFile(f)
    \/ clearFile
    \/ \E i \in 1..MaxPending : previewParsed(i)
    \/ \E t \in {"upsert", "replace"} : setUploadType(t)
    \/ uploadStart
    \/ uploadParsed
    \/ \E accepted \in BOOLEAN : uploadDeleted(accepted)
    \/ \E accepted \in BOOLEAN : uploadUpserted(accepted)
    \/ \E accepted \in BOOLEAN : uploadLogged(accepted)

SpecBox == Init /\ [][NextBox]_vars

(***************************************************************************)
(* C30.  The file FileUpload shows and the file Admin holds.               *)
(***************************************************************************)
\* C30: FileUpload shows no file exactly when Admin.selectedFile is null, the
\* two hold the same file otherwise, and Admin never holds a file that fails
\* the validation.
C30_PickerAgreesWithAdmin ==
    /\ boxFile = NoFile <=> selectedFile = NoFile
    /\ boxFile = selectedFile
    /\ selectedFile # NoFile => validateFile(selectedFile) = "none"

====
